---- MODULE Spec2Model ----
(***************************************************************************)
(* A model of the Music Metadata Tagger: the input parsers and             *)
(* collect_updates, the four tag handlers (MP3/ID3, FLAC/Vorbis, MP4,      *)
(* ASF), the file classifier, the batch engine apply_metadata_to_files     *)
(* and the apply flow of main().                                           *)
(*                                                                         *)
(* Python text that the code inspects character by character is a          *)
(* sequence of one-character strings (a Text).  Python values are records  *)
(* with one shape, so that any two of them can be compared:                *)
(*   t  the Python type: "none", "int", "str", "bytes", "list", "tuple"    *)
(*   k  the ints held: the int itself; of a tuple, its int components      *)
(*      (the tuple (a, None) holds a alone)                                *)
(*   l  the texts held: the str itself; of a list, its items               *)
(***************************************************************************)
EXTENDS Integers, Sequences, FiniteSets, TLC

VARIABLES
    pc,          \* position of the running call
    mode,        \* "none", "app" (main's apply flow) or "direct" (engine called directly)
    raw_inputs,  \* main: the form's inputs, a dict in insertion order
    updates,     \* the field set handed to the engine, a dict in insertion order
    errors,      \* main: the errors collect_updates returned
    paths,       \* apply_metadata_to_files: the paths argument
    index,       \* apply_metadata_to_files: enumerate(paths, start=1)
    field,       \* BaseTagHandler.apply: how many items of updates are done
    handler,     \* the live handler instance: its class, path and self.audio
    disk,        \* the tag container each file holds on disk
    results,     \* apply_metadata_to_files: the results list
    progress,    \* the st.progress widget: its state and the values it was given
    log,         \* the calls made so far, in order
    session,     \* st.session_state: the folder widgets and the folder cache
    ret          \* the last folder call: its arguments, what it returned and did

vars == <<pc, mode, raw_inputs, updates, errors, paths, index, field, handler,
          disk, results, progress, log, session, ret>>

\* the variables of the batch engine, which the folder calls leave alone
engineVars == <<pc, mode, raw_inputs, updates, errors, paths, index, field, handler,
                disk, results, progress, log>>

----------------------------------------------------------------------------
(* Bounds of the model *)

\* the longest paths list handed to the engine
MaxFiles == 2
\* the most fields a caller fills in
MaxFields == 2

----------------------------------------------------------------------------
(* Python values *)

NoneV == [t |-> "none", k |-> <<>>, l |-> <<>>]
IntV(a) == [t |-> "int", k |-> <<a>>, l |-> <<>>]
StrV(x) == [t |-> "str", k |-> <<>>, l |-> <<x>>]
BytesV(x) == [t |-> "bytes", k |-> <<>>, l |-> <<x>>]
ListV(xs) == [t |-> "list", k |-> <<>>, l |-> xs]
\* the tuple (a, b) and the tuple (a, None)
TupleV(a, b) == [t |-> "tuple", k |-> <<a, b>>, l |-> <<>>]
TupleNoneV(a) == [t |-> "tuple", k |-> <<a>>, l |-> <<>>]

\* the int of an int (the first component of a tuple); the str of a str
IntOf(v) == v.k[1]
StrOf(v) == v.l[1]
\* the second component of a tuple, and whether it is None
SecondOf(v) == v.k[2]
SecondIsNone(v) == Len(v.k) < 2

\* what a Python call produces: a value, or a raised exception with its str()
Ok(v) == [raised |-> FALSE, exc |-> "", msg |-> "", val |-> v]
Raise(e, m) == [raised |-> TRUE, exc |-> e, msg |-> m, val |-> NoneV]

----------------------------------------------------------------------------
(* Text *)

Digits == <<"0", "1", "2", "3", "4", "5", "6", "7", "8", "9">>
IsDigit(c) == \E d \in 1..10 : Digits[d] = c
DigitVal(c) == (CHOOSE d \in 1..10 : Digits[d] = c) - 1
IsSpace(c) == c = " "

\* str.strip(): leading and trailing whitespace removed
RECURSIVE LStrip(_)
LStrip(x) == IF x # <<>> /\ IsSpace(Head(x)) THEN LStrip(Tail(x)) ELSE x
RECURSIVE RStrip(_)
RStrip(x) ==
    IF x # <<>> /\ IsSpace(x[Len(x)]) THEN RStrip(SubSeq(x, 1, Len(x) - 1)) ELSE x
Strip(x) == RStrip(LStrip(x))

\* the position of the first character of x that is in the set cs, 0 when none
FirstIn(x, cs) ==
    IF \E k \in 1..Len(x) : x[k] \in cs
    THEN CHOOSE k \in 1..Len(x) : x[k] \in cs /\ \A m \in 1..(k - 1) : x[m] \notin cs
    ELSE 0

\* re.split(r"[...]", x): x cut at every character of cs (empty parts kept)
RECURSIVE SplitAll(_, _)
SplitAll(x, cs) ==
    LET k == FirstIn(x, cs)
    IN  IF k = 0 THEN <<x>>
        ELSE <<SubSeq(x, 1, k - 1)>> \o SplitAll(SubSeq(x, k + 1, Len(x)), cs)

\* sep.join(xs)
RECURSIVE Join(_, _)
Join(xs, sep) ==
    IF xs = <<>> THEN <<>>
    ELSE IF Len(xs) = 1 THEN xs[1]
    ELSE xs[1] \o sep \o Join(Tail(xs), sep)

\* str(k) of an int: its decimal text
RECURSIVE NatToText(_)
NatToText(k) ==
    IF k < 10 THEN <<Digits[k + 1]>> ELSE NatToText(k \div 10) \o <<Digits[(k % 10) + 1]>>
IntToText(k) == IF k < 0 THEN <<"-">> \o NatToText(0 - k) ELSE NatToText(k)

\* the value of a text of digits
RECURSIVE DigitsToNat(_)
DigitsToNat(x) ==
    IF x = <<>> THEN 0
    ELSE 10 * DigitsToNat(SubSeq(x, 1, Len(x) - 1)) + DigitVal(x[Len(x)])

AllDigits(x) == x # <<>> /\ \A k \in 1..Len(x) : IsDigit(x[k])

\* the digits of an int literal: digits, with single underscores allowed between them
IntLiteral(x) ==
    /\ x # <<>>
    /\ \A k \in 1..Len(x) : IsDigit(x[k]) \/ x[k] = "_"
    /\ IsDigit(x[1]) /\ IsDigit(x[Len(x)])
    /\ \A k \in 1..(Len(x) - 1) : ~(x[k] = "_" /\ x[k + 1] = "_")

\* int(x) of a str: whitespace stripped, an optional sign, then an int literal;
\* anything else raises ValueError
PyIntOfText(x) ==
    LET y == Strip(x)
        signed == y # <<>> /\ Head(y) \in {"-", "+"}
        body == IF signed THEN Tail(y) ELSE y
        digits == SelectSeq(body, IsDigit)
    IN  IF ~IntLiteral(body)
        THEN Raise("ValueError", "invalid literal for int() with base 10")
        ELSE IF signed /\ Head(y) = "-" THEN Ok(IntV(0 - DigitsToNat(digits)))
        ELSE Ok(IntV(DigitsToNat(digits)))

\* int(value): an int is itself, a str is parsed, None raises TypeError
PyInt(v) ==
    CASE v.t = "int" -> Ok(v)
      [] v.t = "str" -> PyIntOfText(StrOf(v))
      [] OTHER -> Raise("TypeError", "int() argument must be a string or a number")

\* str(value) of None, an int or a str
PyStr(v) ==
    CASE v.t = "none" -> <<"N", "o", "n", "e">>
      [] v.t = "int" -> IntToText(IntOf(v))
      [] v.t = "str" -> StrOf(v)

\* Python truthiness of a value
Truthy(v) ==
    CASE v.t = "none" -> FALSE
      [] v.t = "int" -> IntOf(v) # 0
      [] v.t = "str" -> StrOf(v) # <<>>
      [] v.t = "list" -> v.l # <<>>
      [] v.t = "tuple" -> TRUE

----------------------------------------------------------------------------
(* The input parsers *)

sanitize_text(value) ==
    IF value.t = "none" THEN NoneV
    ELSE LET text == Strip(PyStr(value))
         IN  IF text # <<>> THEN StrV(text) ELSE NoneV

\* [part.strip() for part in parts if part.strip()]
RECURSIVE StripNonEmpty(_)
StripNonEmpty(parts) ==
    IF parts = <<>> THEN <<>>
    ELSE IF Strip(Head(parts)) # <<>>
         THEN <<Strip(Head(parts))>> \o StripNonEmpty(Tail(parts))
         ELSE StripNonEmpty(Tail(parts))

\* a split on commas alone
parse_people_CommaOnly(value) ==
    LET text == sanitize_text(value)
    IN  IF ~Truthy(text) THEN Ok(NoneV)
        ELSE LET parts == StripNonEmpty(SplitAll(StrOf(text), {","}))
             IN  IF parts # <<>> THEN Ok(ListV(parts)) ELSE Ok(NoneV)

parse_people(value) ==
    LET text == sanitize_text(value)
    IN  IF ~Truthy(text) THEN Ok(NoneV)
        ELSE LET parts == StripNonEmpty(SplitAll(StrOf(text), {";", ","}))
             IN  IF parts # <<>> THEN Ok(ListV(parts)) ELSE Ok(NoneV)

\* -\d{1,2} at the head of x: the lengths it can take
DashGroup(x, k) ==
    /\ Len(x) >= k + 1
    /\ x[1] = "-"
    /\ AllDigits(SubSeq(x, 2, k + 1))

\* the pattern without its end anchor
YearMatchesOpen(x) == Len(x) >= 4 /\ AllDigits(SubSeq(x, 1, 4))

\* re.match(r"^\d{4}(-\d{1,2}(-\d{1,2})?)?$", x), for a stripped x
YearMatches(x) ==
    /\ Len(x) >= 4
    /\ AllDigits(SubSeq(x, 1, 4))
    /\ LET r == SubSeq(x, 5, Len(x))
       IN  \/ r = <<>>
           \/ \E a \in 1..2 :
                /\ DashGroup(r, a)
                /\ LET q == SubSeq(r, a + 2, Len(r))
                   IN  \/ q = <<>>
                       \/ \E b \in 1..2 : DashGroup(q, b) /\ Len(q) = b + 1

parse_year(value) ==
    LET text == sanitize_text(value)
    IN  IF ~Truthy(text) THEN Ok(NoneV)
        ELSE IF ~YearMatches(StrOf(text))
             THEN Raise("ValueError", "Use YYYY or YYYY-MM-DD format.")
             ELSE Ok(text)

\* a parser that compares the total with the track as text
parse_track_number_Text(value) ==
    LET text == sanitize_text(value)
    IN  IF ~Truthy(text) THEN Ok(NoneV)
        ELSE
        LET k == FirstIn(StrOf(text), {"/"})
            first == IF k > 0 THEN SubSeq(StrOf(text), 1, k - 1) ELSE StrOf(text)
            second == IF k > 0 THEN SubSeq(StrOf(text), k + 1, Len(StrOf(text))) ELSE <<>>
            track == PyIntOfText(Strip(first))
            hasTotal == Strip(second) # <<>>
            total == PyIntOfText(Strip(second))
        IN  IF track.raised THEN Raise("ValueError", "Track must be an integer.")
            ELSE IF hasTotal /\ total.raised
                 THEN Raise("ValueError", "Total tracks must be an integer.")
            ELSE IF IntOf(track.val) < 0 THEN Raise("ValueError", "Track must be positive.")
            ELSE IF hasTotal /\ Len(Strip(second)) < Len(Strip(first))
                 THEN Raise("ValueError",
                            "Total tracks cannot be smaller than the track number.")
            ELSE IF hasTotal THEN Ok(TupleV(IntOf(track.val), IntOf(total.val)))
            ELSE Ok(TupleNoneV(IntOf(track.val)))

\* a parser that looks at the sign of the track before it reads the total
parse_track_number_SignFirst(value) ==
    LET text == sanitize_text(value)
    IN  IF ~Truthy(text) THEN Ok(NoneV)
        ELSE
        LET k == FirstIn(StrOf(text), {"/"})
            first == IF k > 0 THEN SubSeq(StrOf(text), 1, k - 1) ELSE StrOf(text)
            second == IF k > 0 THEN SubSeq(StrOf(text), k + 1, Len(StrOf(text))) ELSE <<>>
            track == PyIntOfText(Strip(first))
            hasTotal == Strip(second) # <<>>
            total == PyIntOfText(Strip(second))
        IN  IF track.raised THEN Raise("ValueError", "Track must be an integer.")
            ELSE IF IntOf(track.val) < 0 THEN Raise("ValueError", "Track must be positive.")
            ELSE IF hasTotal /\ total.raised
                 THEN Raise("ValueError", "Total tracks must be an integer.")
            ELSE IF hasTotal /\ IntOf(total.val) < IntOf(track.val)
                 THEN Raise("ValueError",
                            "Total tracks cannot be smaller than the track number.")
            ELSE IF hasTotal THEN Ok(TupleV(IntOf(track.val), IntOf(total.val)))
            ELSE Ok(TupleNoneV(IntOf(track.val)))

parse_track_number(value) ==
    LET text == sanitize_text(value)
    IN  IF ~Truthy(text) THEN Ok(NoneV)
        ELSE
        LET k == FirstIn(StrOf(text), {"/"})
            first == IF k > 0 THEN SubSeq(StrOf(text), 1, k - 1) ELSE StrOf(text)
            second == IF k > 0 THEN SubSeq(StrOf(text), k + 1, Len(StrOf(text))) ELSE <<>>
            track == PyIntOfText(Strip(first))
            hasTotal == Strip(second) # <<>>
            total == PyIntOfText(Strip(second))
        IN  IF track.raised THEN Raise("ValueError", "Track must be an integer.")
            ELSE IF hasTotal /\ total.raised
                 THEN Raise("ValueError", "Total tracks must be an integer.")
            ELSE IF IntOf(track.val) < 0 THEN Raise("ValueError", "Track must be positive.")
            ELSE IF hasTotal /\ IntOf(total.val) < IntOf(track.val)
                 THEN Raise("ValueError",
                            "Total tracks cannot be smaller than the track number.")
            ELSE IF hasTotal THEN Ok(TupleV(IntOf(track.val), IntOf(total.val)))
            ELSE Ok(TupleNoneV(IntOf(track.val)))


FieldNames ==
    <<"title", "subtitle", "rating", "comments", "artists", "album_artist", "album",
      "year", "track_number", "genre">>

FIELD_LABELS ==
    [title |-> "Title", subtitle |-> "Subtitle", rating |-> "Rating",
     comments |-> "Comments", artists |-> "Contributing artists",
     album_artist |-> "Album artist", album |-> "Album", year |-> "Year",
     track_number |-> "Track number", genre |-> "Genre"]

\* FIELD_PARSERS.get(name, lambda v: v)(raw_value)
FIELD_PARSERS(name, raw_value) ==
    CASE name \in {"title", "subtitle", "comments", "album_artist", "album", "genre"} ->
            Ok(sanitize_text(raw_value))
      [] name = "rating" -> Ok(raw_value)
      [] name = "artists" -> parse_people(raw_value)
      [] name = "year" -> parse_year(raw_value)
      [] name = "track_number" -> parse_track_number(raw_value)
      [] OTHER -> Ok(raw_value)

\* FIELD_LABELS.get(name, name)
LabelOf(name) == IF name \in DOMAIN FIELD_LABELS THEN FIELD_LABELS[name] ELSE name

\* f"{FIELD_LABELS.get(name, name)}: {exc}"
ErrorText(name, msg) == LabelOf(name) \o ": " \o msg

\* a loop that stops parsing at the first error ("break" for "continue")
CollectStepBreak(acc, item) ==
    LET parsed == FIELD_PARSERS(item.name, item.value)
    IN  IF acc.errors # <<>> THEN acc
        ELSE IF parsed.raised
        THEN [acc EXCEPT !.errors = Append(@, ErrorText(item.name, parsed.msg))]
        ELSE IF parsed.val.t = "none" THEN acc
        ELSE IF parsed.val.t = "list" /\ parsed.val.l = <<>> THEN acc
        ELSE [acc EXCEPT !.updates = Append(@, [name |-> item.name, value |-> parsed.val])]

\* a loop that skips every falsy value ("if not parsed: continue")
CollectStepFalsy(acc, item) ==
    LET parsed == FIELD_PARSERS(item.name, item.value)
    IN  IF parsed.raised
        THEN [acc EXCEPT !.errors = Append(@, ErrorText(item.name, parsed.msg))]
        ELSE IF ~Truthy(parsed.val) THEN acc
        ELSE [acc EXCEPT !.updates = Append(@, [name |-> item.name, value |-> parsed.val])]

\* one turn of collect_updates' loop, on the item (name, raw_value)
CollectStep(acc, item) ==
    LET parsed == FIELD_PARSERS(item.name, item.value)
    IN  IF parsed.raised
        THEN [acc EXCEPT !.errors = Append(@, ErrorText(item.name, parsed.msg))]
        ELSE IF parsed.val.t = "none" THEN acc
        ELSE IF parsed.val.t = "list" /\ parsed.val.l = <<>> THEN acc
        ELSE [acc EXCEPT !.updates = Append(@, [name |-> item.name, value |-> parsed.val])]

RECURSIVE CollectFrom(_, _)
CollectFrom(acc, items) ==
    IF items = <<>> THEN acc ELSE CollectFrom(CollectStep(acc, Head(items)), Tail(items))

\* collect_updates(raw_inputs): the pair (updates, errors)
collect_updates(inputs) == CollectFrom([updates |-> <<>>, errors |-> <<>>], inputs)


----------------------------------------------------------------------------
(* Tag containers.  A container maps each native key it holds (ID3 frame    *)
(* id, Vorbis comment name, MP4 atom, ASF attribute name) to the list of    *)
(* values held under it.                                                    *)

\* an ID3 frame: its text list or rating in v, its email or language in a, its
\* play count in k (frames are written with encoding=3 throughout)
Frame(v, a, k) == [v |-> v, a |-> a, k |-> k]
TextFrame(v) == Frame(v, "", 0)

MP3Keys == {"TIT2", "TIT3", "COMM", "TPE1", "TPE2", "TALB", "TDRC", "TRCK", "TCON", "POPM"}
FLACKeys ==
    {"title", "subtitle", "comment", "artist", "albumartist", "album", "date",
     "tracknumber", "tracktotal", "genre", "rating"}
MP4Keys ==
    {"\\xa9nam", "----:com.apple.iTunes:SUBTITLE", "\\xa9cmt", "\\xa9ART", "aART",
     "\\xa9alb", "\\xa9day", "trkn", "\\xa9gen", "rate"}
ASFKeys ==
    {"Title", "WM/SubTitle", "WM/Comments", "Author", "WM/AlbumArtist", "WM/AlbumTitle",
     "WM/Year", "WM/TrackNumber", "WM/TrackTotal", "WM/Genre", "WM/SharedUserRating"}

KeysOf(cls) ==
    CASE cls = "MP3TagHandler" -> MP3Keys
      [] cls = "FLACTagHandler" -> FLACKeys
      [] cls = "MP4TagHandler" -> MP4Keys
      [] cls = "ASFTagHandler" -> ASFKeys

\* ID3(): a tag with no frames; likewise for the other containers
EmptyTags(cls) == <<>>

\* "key in audio", audio[key] = values and "del audio[key]"
Has(audio, key) == key \in DOMAIN audio
Put(audio, key, values) == (key :> values) @@ audio
Del(audio, key) == [k \in DOMAIN audio \ {key} |-> audio[k]]
\* the values under a key, none when the key is absent
Get(audio, key) == IF Has(audio, key) THEN audio[key] ELSE <<>>

\* the POPM table with the byte of 4 stars mistyped
RATING_TO_POPM_Typo ==
    (0 :> 0) @@ (1 :> 1) @@ (2 :> 64) @@ (3 :> 128) @@ (4 :> 192) @@ (5 :> 255)
RATING_TO_POPM == (0 :> 0) @@ (1 :> 1) @@ (2 :> 64) @@ (3 :> 128) @@ (4 :> 196) @@ (5 :> 255)
RATING_TO_MP4 == (0 :> 0) @@ (1 :> 20) @@ (2 :> 40) @@ (3 :> 60) @@ (4 :> 80) @@ (5 :> 100)
RATING_TO_ASF == (0 :> 0) @@ (1 :> 1) @@ (2 :> 25) @@ (3 :> 50) @@ (4 :> 75) @@ (5 :> 99)

\* table.get(key, default)
DictGet(table, key, default) == IF key \in DOMAIN table THEN table[key] ELSE default

\* what set_field leaves: the container, and the exception it raised if any
Set(audio) == [raised |-> FALSE, exc |-> "", msg |-> "", audio |-> audio]
SetRaise(r, audio) == [raised |-> TRUE, exc |-> r.exc, msg |-> r.msg, audio |-> audio]

\* a delall that empties the whole tag
DelAddOnly(audio, key, frame) == (key :> <<frame>>)
\* an add with no delall before it
AddOnly(audio, key, frame) ==
    (key :> ((IF key \in DOMAIN audio THEN audio[key] ELSE <<>>) \o <<frame>>)) @@ audio

\* self.audio.delall(key); self.audio.add(frame)
DelAdd(audio, key, frame) == Put(Del(audio, key), key, <<frame>>)

POPM_EMAIL == "Windows Media Player 9 Series"

\* the POPM branch: delall runs before int(value) is evaluated
MP3SetRating(audio, value) ==
    LET cleared == Del(audio, "POPM")
        r == PyInt(value)
    IN  IF r.raised THEN SetRaise(r, cleared)
        ELSE Set(Put(cleared, "POPM",
                     <<Frame(IntV(DictGet(RATING_TO_POPM, IntOf(r.val), 0)),
                             POPM_EMAIL, 0)>>))

\* the total of a (track, total) tuple, as a value
Total(value) == IF SecondIsNone(value) THEN NoneV ELSE IntV(SecondOf(value))

\* f"{track}/{total}" if total else str(track)
TrackText(value) ==
    IF Truthy(Total(value))
    THEN IntToText(IntOf(value)) \o <<"/">> \o IntToText(SecondOf(value))
    ELSE IntToText(IntOf(value))

MP3TagHandler_set_field(audio, name, value) ==
    CASE name = "title" -> Set(DelAdd(audio, "TIT2", TextFrame(ListV(<<StrOf(value)>>))))
      [] name = "subtitle" -> Set(DelAdd(audio, "TIT3", TextFrame(ListV(<<StrOf(value)>>))))
      [] name = "comments" ->
            Set(DelAdd(audio, "COMM", Frame(ListV(<<StrOf(value)>>), "eng", 0)))
      [] name = "artists" -> Set(DelAdd(audio, "TPE1", TextFrame(ListV(value.l))))
      [] name = "album_artist" ->
            Set(DelAdd(audio, "TPE2", TextFrame(ListV(<<StrOf(value)>>))))
      [] name = "album" -> Set(DelAdd(audio, "TALB", TextFrame(ListV(<<StrOf(value)>>))))
      [] name = "year" -> Set(DelAdd(audio, "TDRC", TextFrame(ListV(<<StrOf(value)>>))))
      [] name = "track_number" ->
            Set(DelAdd(audio, "TRCK", TextFrame(ListV(<<TrackText(value)>>))))
      [] name = "genre" -> Set(DelAdd(audio, "TCON", TextFrame(ListV(<<StrOf(value)>>))))
      [] name = "rating" -> MP3SetRating(audio, value)
      [] OTHER -> Set(audio)

\* [str(v) for v in a list of str]: the values of a multi-valued key
StrList(xs) == [k \in 1..Len(xs) |-> StrV(xs[k])]

\* the track_number branch of the FLAC handler
FLACSetTrack(audio, value) ==
    LET a1 == Put(audio, "tracknumber", <<StrV(IntToText(IntOf(value)))>>)
    IN  IF Truthy(Total(value))
        THEN Put(a1, "tracktotal", <<StrV(IntToText(SecondOf(value)))>>)
        ELSE Del(a1, "tracktotal")

FLACTagHandler_set_field(audio, name, value) ==
    CASE name = "title" -> Set(Put(audio, "title", <<value>>))
      [] name = "subtitle" -> Set(Put(audio, "subtitle", <<value>>))
      [] name = "comments" -> Set(Put(audio, "comment", <<value>>))
      [] name = "artists" -> Set(Put(audio, "artist", StrList(value.l)))
      [] name = "album_artist" -> Set(Put(audio, "albumartist", <<value>>))
      [] name = "album" -> Set(Put(audio, "album", <<value>>))
      [] name = "year" -> Set(Put(audio, "date", <<value>>))
      [] name = "track_number" -> Set(FLACSetTrack(audio, value))
      [] name = "genre" -> Set(Put(audio, "genre", <<value>>))
      [] name = "rating" -> Set(Put(audio, "rating", <<StrV(PyStr(value))>>))
      [] OTHER -> Set(audio)

\* the rate branch: int(value) is evaluated before the assignment
MP4SetRating(audio, value) ==
    LET r == PyInt(value)
    IN  IF r.raised THEN SetRaise(r, audio)
        ELSE Set(Put(audio, "rate", <<IntV(DictGet(RATING_TO_MP4, IntOf(r.val), 0))>>))

\* (track, total or 0)
TrackPair(value) ==
    TupleV(IntOf(value), IF Truthy(Total(value)) THEN SecondOf(value) ELSE 0)

MP4TagHandler_set_field(audio, name, value) ==
    CASE name = "title" -> Set(Put(audio, "\\xa9nam", <<value>>))
      [] name = "subtitle" ->
            Set(Put(audio, "----:com.apple.iTunes:SUBTITLE", <<BytesV(StrOf(value))>>))
      [] name = "comments" -> Set(Put(audio, "\\xa9cmt", <<value>>))
      [] name = "artists" -> Set(Put(audio, "\\xa9ART", StrList(value.l)))
      [] name = "album_artist" -> Set(Put(audio, "aART", <<value>>))
      [] name = "album" -> Set(Put(audio, "\\xa9alb", <<value>>))
      [] name = "year" -> Set(Put(audio, "\\xa9day", <<value>>))
      [] name = "track_number" -> Set(Put(audio, "trkn", <<TrackPair(value)>>))
      [] name = "genre" -> Set(Put(audio, "\\xa9gen", <<value>>))
      [] name = "rating" -> MP4SetRating(audio, value)
      [] OTHER -> Set(audio)

\* the track_number branch of the ASF handler
ASFSetTrack(audio, value) ==
    LET a1 == Put(audio, "WM/TrackNumber", <<StrV(IntToText(IntOf(value)))>>)
    IN  IF Truthy(Total(value))
        THEN Put(a1, "WM/TrackTotal", <<StrV(IntToText(SecondOf(value)))>>)
        ELSE Del(a1, "WM/TrackTotal")

ASFSetRating(audio, value) ==
    LET r == PyInt(value)
    IN  IF r.raised THEN SetRaise(r, audio)
        ELSE Set(Put(audio, "WM/SharedUserRating",
                     <<IntV(DictGet(RATING_TO_ASF, IntOf(r.val), 0))>>))

ASFTagHandler_set_field(audio, name, value) ==
    CASE name = "title" -> Set(Put(audio, "Title", <<value>>))
      [] name = "subtitle" -> Set(Put(audio, "WM/SubTitle", <<value>>))
      [] name = "comments" -> Set(Put(audio, "WM/Comments", <<value>>))
      [] name = "artists" ->
            Set(Put(audio, "Author", <<StrV(Join(value.l, <<";", " ">>))>>))
      [] name = "album_artist" -> Set(Put(audio, "WM/AlbumArtist", <<value>>))
      [] name = "album" -> Set(Put(audio, "WM/AlbumTitle", <<value>>))
      [] name = "year" -> Set(Put(audio, "WM/Year", <<value>>))
      [] name = "track_number" -> Set(ASFSetTrack(audio, value))
      [] name = "genre" -> Set(Put(audio, "WM/Genre", <<value>>))
      [] name = "rating" -> ASFSetRating(audio, value)
      [] OTHER -> Set(audio)

\* handlers that refuse a field they have no branch for
set_field_Strict(cls, audio, name, value) ==
    IF \A k \in 1..Len(FieldNames) : FieldNames[k] # name
    THEN SetRaise(Raise("KeyError", name), audio)
    ELSE CASE cls = "MP3TagHandler" -> MP3TagHandler_set_field(audio, name, value)
           [] cls = "FLACTagHandler" -> FLACTagHandler_set_field(audio, name, value)
           [] cls = "MP4TagHandler" -> MP4TagHandler_set_field(audio, name, value)
           [] cls = "ASFTagHandler" -> ASFTagHandler_set_field(audio, name, value)

\* handler.set_field(name, value), dispatched on the handler's class
set_field(cls, audio, name, value) ==
    CASE cls = "MP3TagHandler" -> MP3TagHandler_set_field(audio, name, value)
      [] cls = "FLACTagHandler" -> FLACTagHandler_set_field(audio, name, value)
      [] cls = "MP4TagHandler" -> MP4TagHandler_set_field(audio, name, value)
      [] cls = "ASFTagHandler" -> ASFTagHandler_set_field(audio, name, value)


----------------------------------------------------------------------------
(* The file classifier *)

UpperLetters ==
    <<"A", "B", "C", "D", "E", "F", "G", "H", "I", "J", "K", "L", "M", "N", "O", "P",
      "Q", "R", "S", "T", "U", "V", "W", "X", "Y", "Z">>
LowerLetters ==
    <<"a", "b", "c", "d", "e", "f", "g", "h", "i", "j", "k", "l", "m", "n", "o", "p",
      "q", "r", "s", "t", "u", "v", "w", "x", "y", "z">>

\* str.lower()
LowerChar(c) ==
    IF \E k \in 1..26 : UpperLetters[k] = c
    THEN LowerLetters[CHOOSE k \in 1..26 : UpperLetters[k] = c]
    ELSE c
\* a lookup that keeps the case of the suffix
LowerAsIs(x) == x
Lower(x) == [k \in 1..Len(x) |-> LowerChar(x[k])]

HANDLER_CLASSES == <<"MP3TagHandler", "MP4TagHandler", "FLACTagHandler", "ASFTagHandler">>

SUFFIXES(cls) ==
    CASE cls = "MP3TagHandler" -> <<(<<".", "m", "p", "3">>)>>
      [] cls = "FLACTagHandler" -> <<(<<".", "f", "l", "a", "c">>)>>
      [] cls = "MP4TagHandler" ->
            << <<".", "m", "4", "a">>, <<".", "m", "4", "b">>, <<".", "m", "4", "p">>,
               <<".", "m", "4", "r">>, <<".", "m", "p", "4">>, <<".", "m", "4", "v">> >>
      [] cls = "ASFTagHandler" -> << <<".", "w", "m", "a">>, <<".", "a", "s", "f">> >>

HasSuffix(cls, suffix) == \E k \in 1..Len(SUFFIXES(cls)) : SUFFIXES(cls)[k] = suffix

\* the keys of SUFFIX_HANDLER_MAP
SupportedSuffixes ==
    UNION {{SUFFIXES(HANDLER_CLASSES[c])[k] : k \in 1..Len(SUFFIXES(HANDLER_CLASSES[c]))} :
            c \in 1..Len(HANDLER_CLASSES)}

\* the order of the characters of the keys, as sorted() compares them
CharOrder == <<" ", ",", ".", "3", "4", "a", "b", "c", "f", "l", "m", "p", "r", "s", "v", "w">>
CharRank(c) == CHOOSE k \in 1..Len(CharOrder) : CharOrder[k] = c

\* a < b for two str
RECURSIVE TextLess(_, _)
TextLess(a, b) ==
    IF b = <<>> THEN FALSE
    ELSE IF a = <<>> THEN TRUE
    ELSE IF Head(a) # Head(b) THEN CharRank(Head(a)) < CharRank(Head(b))
    ELSE TextLess(Tail(a), Tail(b))

\* sorted(keys)
RECURSIVE SortTexts(_)
SortTexts(S) ==
    IF S = {} THEN <<>>
    ELSE LET least == CHOOSE a \in S : \A b \in S : a = b \/ TextLess(a, b)
         IN  <<least>> \o SortTexts(S \ {least})

\* ", ".join(sorted(SUFFIX_HANDLER_MAP.keys()))
SUPPORTED_EXTENSIONS == Join(SortTexts(SupportedSuffixes), <<",", " ">>)

\* SUFFIX_HANDLER_MAP.get(suffix): the map is filled class by class, so a later
\* class of HANDLER_CLASSES would overwrite an earlier one; "" stands for None
SUFFIX_HANDLER_MAP(suffix) ==
    IF \E c \in 1..Len(HANDLER_CLASSES) : HasSuffix(HANDLER_CLASSES[c], suffix)
    THEN HANDLER_CLASSES[CHOOSE c \in 1..Len(HANDLER_CLASSES) :
            /\ HasSuffix(HANDLER_CLASSES[c], suffix)
            /\ \A d \in (c + 1)..Len(HANDLER_CLASSES) :
                    ~HasSuffix(HANDLER_CLASSES[d], suffix)]
    ELSE ""

\* a classifier that falls back to the first handler class
HandlerClassOrFirst(path) ==
    IF SUFFIX_HANDLER_MAP(Lower(path.suffix)) = "" THEN HANDLER_CLASSES[1]
    ELSE SUFFIX_HANDLER_MAP(Lower(path.suffix))

\* the class get_handler_for_path picks for a path, "" when it returns None
HandlerClassFor(path) == SUFFIX_HANDLER_MAP(Lower(path.suffix))


----------------------------------------------------------------------------
(* Files *)

Path(stem, suffix) == [stem |-> stem, suffix |-> suffix]
NoPath == Path("", <<>>)

\* the files of the model, in the order sorting puts them
PathOrder ==
    << Path("a", <<".", "m", "p", "3">>),
       Path("b", <<".", "f", "l", "a", "c">>),
       Path("c", <<".", "M", "4", "A">>),
       Path("d", <<".", "w", "m", "a">>),
       Path("e", <<".", "t", "x", "t">>) >>
FilePaths == {PathOrder[k] : k \in 1..Len(PathOrder)}

Old == <<"o">>

\* a tag written by some other tool: every key holds something, POPM and COMM
\* hold two frames each
OldTags(cls) ==
    CASE cls = "MP3TagHandler" ->
            [k \in MP3Keys |->
                CASE k = "POPM" ->
                        <<Frame(IntV(255), "other player", 3), Frame(IntV(1), POPM_EMAIL, 7)>>
                  [] k = "COMM" ->
                        <<Frame(ListV(<<Old>>), "deu", 0), Frame(ListV(<<Old>>), "eng", 0)>>
                  [] k = "TRCK" -> <<TextFrame(ListV(<<(<<"9", "/", "9">>)>>))>>
                  [] OTHER -> <<TextFrame(ListV(<<Old>>))>>]
      [] cls = "FLACTagHandler" ->
            [k \in FLACKeys |->
                CASE k \in {"tracknumber", "tracktotal", "rating"} -> <<StrV(<<"9">>)>>
                  [] k = "artist" -> <<StrV(Old), StrV(Old)>>
                  [] OTHER -> <<StrV(Old)>>]
      [] cls = "MP4TagHandler" ->
            [k \in MP4Keys |->
                CASE k = "trkn" -> <<TupleV(9, 9)>>
                  [] k = "rate" -> <<IntV(100)>>
                  [] k = "----:com.apple.iTunes:SUBTITLE" -> <<BytesV(Old)>>
                  [] OTHER -> <<StrV(Old)>>]
      [] cls = "ASFTagHandler" ->
            [k \in ASFKeys |->
                CASE k \in {"WM/TrackNumber", "WM/TrackTotal"} -> <<StrV(<<"9">>)>>
                  [] k = "WM/SharedUserRating" -> <<IntV(99)>>
                  [] OTHER -> <<StrV(Old)>>]

\* a file on disk: whether it holds a tag header, and the tag
File(header, tags) == [header |-> header, tags |-> tags]

\* the keys of a title and a rating written by another tool
TitleAndRating ==
    {"TIT2", "POPM", "title", "rating", "\\xa9nam", "rate", "Title", "WM/SharedUserRating"}

\* the disk at the start: the MP3 file has no ID3 header yet, the other supported
\* files hold a title and a rating written by another tool, a file no handler
\* knows holds no tag
InitDisk ==
    [p \in FilePaths |->
        CASE HandlerClassFor(p) = "" -> File(FALSE, <<>>)
          [] HandlerClassFor(p) = "MP3TagHandler" -> File(FALSE, EmptyTags("MP3TagHandler"))
          [] OTHER ->
                File(TRUE, [k \in KeysOf(HandlerClassFor(p)) \cap TitleAndRating |->
                                OldTags(HandlerClassFor(p))[k]])]

\* what str(exc) of a failed load or save can read
LoadCauses == {"not a valid container"}
SaveCauses == {"[Errno 13] Permission denied"}

\* list_audio_files: the supported files among the entries of a folder, sorted
RECURSIVE SortedFrom(_, _)
SortedFrom(order, entries) ==
    IF order = <<>> THEN <<>>
    ELSE IF Head(order) \in entries /\ Lower(Head(order).suffix) \in SupportedSuffixes
         THEN <<Head(order)>> \o SortedFrom(Tail(order), entries)
         ELSE SortedFrom(Tail(order), entries)
\* a listing that keeps every entry of the folder, whatever its suffix
list_audio_files_All(entries) ==
    LET found == {k \in 1..Len(PathOrder) : PathOrder[k] \in entries}
    IN  [n \in 1..Cardinality(found) |->
            PathOrder[CHOOSE k \in found : Cardinality({j \in found : j < k}) = n - 1]]

list_audio_files(entries) == SortedFrom(PathOrder, entries)


----------------------------------------------------------------------------
(* Inputs *)

Item(name, value) == [name |-> name, value |-> value]

TextFields == {"title", "subtitle", "comments", "album_artist", "album", "genre"}

\* what the form holds for a field left alone: "" in a text box, Skip in the rating box
Blank(name) == IF name = "rating" THEN NoneV ELSE StrV(<<>>)

\* what a user types into a field
FilledValues(name) ==
    CASE name \in TextFields -> {StrV(<<" ", "a", " ">>)}
      [] name = "artists" -> {StrV(<<"a", ";", "b">>)}
      [] name = "year" -> {StrV(<<"2", "0", "2", "4">>), StrV(<<"2", "4">>)}
      [] name = "track_number" -> {StrV(<<"1", "/", "2">>), StrV(<<"2", "/", "1">>)}
      [] name = "rating" -> {IntV(0), IntV(3)}

\* the fields the model's user fills in
Fillable == {"title", "artists", "year", "track_number", "rating"}

\* the forms main can submit: every field of FIELD_DEFS in order, at most
\* MaxFields of them filled in
Forms ==
    {[k \in 1..Len(FieldNames) |->
        Item(FieldNames[k],
             IF FieldNames[k] \in DOMAIN fill THEN fill[FieldNames[k]]
             ELSE Blank(FieldNames[k]))] :
        fill \in UNION {{f \in [F -> UNION {FilledValues(m) : m \in F}] :
                            \A m \in F : f[m] \in FilledValues(m)} :
                        F \in {G \in SUBSET Fillable : Cardinality(G) <= MaxFields}}}

\* the items a direct caller of the engine passes
EngineItems ==
    {Item("title", StrV(<<"a">>)),
     Item("rating", IntV(3)),
     Item("rating", StrV(<<"x">>)),
     Item("mood", StrV(<<"a">>))}

\* dicts of at most k items over a set of items: sequences with distinct names
RECURSIVE Dicts(_, _)
Dicts(items, k) ==
    IF k = 0 THEN {<<>>}
    ELSE LET shorter == Dicts(items, k - 1)
         IN  shorter \cup
             {Append(d, it) : d \in {e \in shorter : Len(e) = k - 1},
                              it \in items}

DistinctNames(d) == \A a, b \in 1..Len(d) : a # b => d[a].name # d[b].name

EngineUpdates == {d \in Dicts(EngineItems, MaxFields) : DistinctNames(d)}

\* lists of at most k paths, repeats allowed
RECURSIVE PathLists(_)
PathLists(k) ==
    IF k = 0 THEN {<<>>}
    ELSE LET shorter == PathLists(k - 1)
         IN  shorter \cup
             {Append(ps, p) : ps \in {q \in shorter : Len(q) = k - 1}, p \in FilePaths}


----------------------------------------------------------------------------
(* Folder selection: the session state and the folder cache *)

\* no fault of the file system or of the container
NoFault == ""

\* the folders of the model: A holds files at its top and in a subfolder, B is
\* empty, anything else is no directory
FolderA == <<"A">>
FolderB == <<"B">>
IsDir(folder) == folder \in {FolderA, FolderB}

\* what folder.glob("*") or, with subfolders, folder.rglob("*") finds
Entries(folder, include_subfolders) ==
    IF folder = FolderA
    THEN IF include_subfolders THEN {PathOrder[1], PathOrder[3], PathOrder[5]}
         ELSE {PathOrder[1], PathOrder[5]}
    ELSE {}

\* str(folder.resolve()): the absolute path
Resolve(folder) == <<"/">> \o folder

\* _reset_folder_cache(include_subfolders): the empty cache
reset_folder_cache(include_subfolders) ==
    [selected |-> <<>>, resolved |-> <<>>, include_subfolders |-> include_subfolders,
     files |-> <<>>]

\* _get_folder_cache: the cache is a dict with its four keys from
\* initialize_session_state on, so neither the reset nor a setdefault changes it
get_folder_cache(state, include_subfolders) ==
    IF "folder_cache" \notin DOMAIN state THEN reset_folder_cache(include_subfolders)
    ELSE state.folder_cache

\* value.rstrip("\\")
RECURSIVE RStripBackslash(_)
RStripBackslash(x) ==
    IF x # <<>> /\ x[Len(x)] = "\\" THEN RStripBackslash(SubSeq(x, 1, Len(x) - 1)) ELSE x

\* the components os.path.normpath keeps: no empty one, no ".", and ".." takes
\* the component before it away
RECURSIVE NormComps(_, _, _)
NormComps(comps, new, rooted) ==
    IF comps = <<>> THEN new
    ELSE IF Head(comps) \in {<<>>, <<".">>} THEN NormComps(Tail(comps), new, rooted)
    ELSE IF \/ Head(comps) # <<".", ".">>
            \/ (~rooted /\ new = <<>>)
            \/ (new # <<>> /\ new[Len(new)] = <<".", ".">>)
         THEN NormComps(Tail(comps), Append(new, Head(comps)), rooted)
    ELSE IF new # <<>> THEN NormComps(Tail(comps), SubSeq(new, 1, Len(new) - 1), rooted)
    ELSE NormComps(Tail(comps), new, rooted)

\* os.path.normpath(path) of posixpath, for a path that does not start with "//"
normpath(path) ==
    LET rooted == path # <<>> /\ Head(path) = "/"
        body == Join(NormComps(SplitAll(path, {"/"}), <<>>, rooted), <<"/">>)
        whole == IF rooted THEN <<"/">> \o body ELSE body
    IN  IF whole = <<>> THEN <<".">> ELSE whole

normalize_folder_input(raw_value) ==
    LET value == Strip(raw_value)
        unc == Len(value) >= 2 /\ SubSeq(value, 1, 2) \in {<<"\\", "\\">>, <<"/", "/">>}
        normalized == [k \in 1..Len(value) |-> IF value[k] = "/" THEN "\\" ELSE value[k]]
    IN  IF value = <<>> THEN <<>>
        ELSE IF unc
             THEN IF RStripBackslash(normalized) # <<>> THEN RStripBackslash(normalized)
                  ELSE normalized
        ELSE normpath(value)

\* st.session_state after initialize_session_state
InitSession ==
    [folder_input |-> <<>>, folder_path |-> <<>>, include_subfolders |-> TRUE,
     folder_cache |-> reset_folder_cache(TRUE)]

\* what a folder call leaves: the session state and what it returns
Synced(state, selected, folder) == [session |-> state, selected |-> selected, folder |-> folder]

\* sync_folder_selection(): (selected_folder, Path(selected_folder) or None)
sync_folder_selection(state) ==
    LET normalized_input == normalize_folder_input(state.folder_input)
        after == IF normalized_input # state.folder_path
                 THEN [state EXCEPT
                          !.folder_path = normalized_input,
                          !.folder_cache = reset_folder_cache(state.include_subfolders)]
                 ELSE state
    IN  Synced(after, after.folder_path,
               IF after.folder_path # <<>> THEN StrV(after.folder_path) ELSE NoneV)

\* what load_folder_contents leaves: the session state, the pair it returns, whether
\* it called list_audio_files, and the error it showed
Contents(state, files, resolved, listed, error) ==
    [session |-> state, files |-> files, resolved |-> resolved, listed |-> listed,
     error |-> error]

\* a load that takes the cached list whatever the include_subfolders flag
load_folder_contents_AnyFlag(state, folder, include_subfolders, listFault, resolveFault) ==
    LET cache == get_folder_cache(state, include_subfolders)
        selected_folder == state.folder_path
        emptied == [state EXCEPT !.folder_cache = reset_folder_cache(include_subfolders)]
    IN  IF selected_folder = <<>> \/ folder = NoneV
        THEN Contents(emptied, <<>>, <<>>, FALSE, "")
        ELSE IF cache.selected = selected_folder
        THEN Contents(state, cache.files, cache.resolved, FALSE, "")
        ELSE IF ~IsDir(StrOf(folder)) /\ ~IsDir(selected_folder)
        THEN Contents(emptied, <<>>, <<>>, FALSE, "Folder not found or inaccessible: ")
        ELSE IF listFault # NoFault
        THEN Contents(emptied, <<>>, <<>>, TRUE, "Unable to read folder contents: ")
        ELSE
        LET actual_folder == IF IsDir(StrOf(folder)) THEN StrOf(folder) ELSE selected_folder
            files == list_audio_files(Entries(actual_folder, include_subfolders))
            resolved_folder == IF resolveFault THEN selected_folder
                               ELSE Resolve(actual_folder)
        IN  Contents([state EXCEPT !.folder_cache =
                        [selected |-> selected_folder, resolved |-> resolved_folder,
                         include_subfolders |-> include_subfolders, files |-> files]],
                     files, resolved_folder, TRUE, "")

\* load_folder_contents(folder, include_subfolders), under a fault of the listing
\* (NoFault: it goes well) and of folder.resolve()
load_folder_contents(state, folder, include_subfolders, listFault, resolveFault) ==
    LET cache == get_folder_cache(state, include_subfolders)
        selected_folder == state.folder_path
        emptied == [state EXCEPT !.folder_cache = reset_folder_cache(include_subfolders)]
    IN  IF selected_folder = <<>> \/ folder = NoneV
        THEN Contents(emptied, <<>>, <<>>, FALSE, "")
        ELSE IF cache.selected = selected_folder
                /\ cache.include_subfolders = include_subfolders
        THEN Contents(state, cache.files, cache.resolved, FALSE, "")
        ELSE IF ~IsDir(StrOf(folder)) /\ ~IsDir(selected_folder)
        THEN Contents(emptied, <<>>, <<>>, FALSE, "Folder not found or inaccessible: ")
        ELSE IF listFault # NoFault
        THEN Contents(emptied, <<>>, <<>>, TRUE, "Unable to read folder contents: ")
        ELSE
        LET actual_folder == IF IsDir(StrOf(folder)) THEN StrOf(folder) ELSE selected_folder
            files == list_audio_files(Entries(actual_folder, include_subfolders))
            resolved_folder == IF resolveFault THEN selected_folder
                               ELSE Resolve(actual_folder)
        IN  Contents([state EXCEPT !.folder_cache =
                        [selected |-> selected_folder, resolved |-> resolved_folder,
                         include_subfolders |-> include_subfolders, files |-> files]],
                     files, resolved_folder, TRUE, "")

\* what a user types into the folder box
FolderInputs ==
    { <<>>, <<" ">>, <<"A">>, <<" ", "A", " ">>, <<"A", "/">>, <<"B">>,
      <<".", "/", "B">>, <<"A", "/", ".", ".", "/", "B">>, <<"X">>,
      <<"/", "/", "A", "/">> }

\* why a listing fails
ListCauses == {"[Errno 13] Permission denied"}

\* before any folder call
NoReturn ==
    [op |-> "", selected |-> <<>>, folder |-> NoneV, include_subfolders |-> FALSE,
     files |-> <<>>, resolved |-> <<>>, listed |-> FALSE, error |-> ""]

\* the user edits the text of the folder box
TypeFolder ==
    /\ \E text \in FolderInputs \ {session.folder_input} :
        session' = [session EXCEPT !.folder_input = text]
    /\ UNCHANGED ret
    /\ UNCHANGED engineVars

\* the user ticks or unticks "include subfolders"
ToggleSubfolders ==
    /\ session' = [session EXCEPT !.include_subfolders = ~@]
    /\ UNCHANGED ret
    /\ UNCHANGED engineVars

\* selected_folder, folder_path = sync_folder_selection()
SyncFolder ==
    /\ LET r == sync_folder_selection(session)
       IN  /\ session' = r.session
           /\ ret' = [NoReturn EXCEPT !.op = "sync_folder_selection",
                                      !.selected = r.selected, !.folder = r.folder]
    /\ UNCHANGED engineVars

\* files, resolved = load_folder_contents(folder_path, include_subfolders), called
\* with the folder the last sync returned
LoadFolder ==
    /\ \E include_subfolders \in BOOLEAN, listFault \in ListCauses \cup {NoFault},
          resolveFault \in BOOLEAN :
        LET r == load_folder_contents(session, ret.folder, include_subfolders, listFault,
                                      resolveFault)
        IN  /\ session' = r.session
            /\ ret' = [op |-> "load_folder_contents", selected |-> ret.selected,
                       folder |-> ret.folder, include_subfolders |-> include_subfolders,
                       files |-> r.files, resolved |-> r.resolved, listed |-> r.listed,
                       error |-> r.error]
    /\ UNCHANGED engineVars

----------------------------------------------------------------------------
(* The batch engine and main's apply flow *)

NoHandler == [cls |-> "", path |-> NoPath, audio |-> <<>>]
NoProgress == [made |-> FALSE, emptied |-> FALSE, values |-> <<>>]

\* an UpdateResult; its message is a text followed by the suffix it names
Message(text, suffix) == [text |-> text, suffix |-> suffix]
UpdateResult(path, success, message) ==
    [path |-> path, success |-> success, message |-> message]

NoMessage == Message("", <<>>)

\* one call made by the batch: what was called for which file (index), on which
\* field, whether it returned, and str(exc) of what it raised
Event(op, k, name, ok, msg) ==
    [op |-> op, index |-> k, name |-> name, ok |-> ok, msg |-> msg]

Init ==
    /\ pc = "idle"
    /\ mode = "none"
    /\ raw_inputs = <<>>
    /\ updates = <<>>
    /\ errors = <<>>
    /\ paths = <<>>
    /\ index = 0
    /\ field = 0
    /\ handler = NoHandler
    /\ disk = InitDisk
    /\ results = <<>>
    /\ progress = NoProgress
    /\ log = <<>>
    /\ session = InitSession
    /\ ret = NoReturn

\* a gate that lets a single error through
ErrorGateMany(errs) == Len(errs) > 1
\* main: "if errors: return"
ErrorGate(errs) == errs # <<>>
\* no gate on an empty field set
EmptyGateOff(upd) == FALSE
\* main: "if not updates: ... return"
EmptyGate(upd) == upd = <<>>

\* main, once the form is submitted with files listed: collect_updates, the two
\* early returns, then the call of apply_metadata_to_files(files, updates)
MainApply ==
    /\ pc = "idle"
    /\ \E form \in Forms, entries \in SUBSET FilePaths :
        LET files == list_audio_files(entries)
            cu == collect_updates(form)
        IN  /\ files # <<>>
            /\ Len(files) <= MaxFiles
            /\ mode' = "app"
            /\ raw_inputs' = form
            /\ updates' = cu.updates
            /\ errors' = cu.errors
            /\ IF ErrorGate(cu.errors) \/ EmptyGate(cu.updates)
               THEN pc' = "returned" /\ paths' = <<>>
               ELSE pc' = "call" /\ paths' = files
    /\ UNCHANGED <<index, field, handler, disk, results, progress, log>>
    /\ UNCHANGED <<session, ret>>

\* any other caller of apply_metadata_to_files(paths, updates)
DirectCall ==
    /\ pc = "idle"
    /\ \E ps \in PathLists(MaxFiles), upd \in EngineUpdates :
        /\ paths' = ps
        /\ updates' = upd
    /\ mode' = "direct"
    /\ pc' = "call"
    /\ UNCHANGED <<raw_inputs, errors, index, field, handler, disk, results, progress, log>>
    /\ UNCHANGED <<session, ret>>

\* results = []; total = len(paths); progress = st.progress(0.0) if total else None
BatchBegin ==
    /\ pc = "call"
    /\ results' = <<>>
    /\ progress' = [made |-> Len(paths) > 0, emptied |-> FALSE, values |-> <<>>]
    /\ index' = 1
    /\ pc' = "loop"
    /\ UNCHANGED <<mode, raw_inputs, updates, errors, paths, field, handler, disk, log>>
    /\ UNCHANGED <<session, ret>>

\* a batch that gives up at the first failure
FailedStops(message) ==
    /\ results' = Append(results, UpdateResult(paths[index], FALSE, message))
    /\ pc' = "done"

\* the except branch: results.append(UpdateResult(path, False, str(exc)))
Failed(message) ==
    /\ results' = Append(results, UpdateResult(paths[index], FALSE, message))
    /\ pc' = "progress"

\* get_handler_for_path returns None: the batch raises ValueError itself
Unsupported ==
    /\ pc = "loop"
    /\ index <= Len(paths)
    /\ HandlerClassFor(paths[index]) = ""
    /\ Failed(Message("Unsupported file type: ", paths[index].suffix))
    /\ log' = Append(log, Event("classify", index, "", FALSE,
                                Message("Unsupported file type: ", paths[index].suffix)))
    /\ UNCHANGED <<mode, raw_inputs, updates, errors, paths, index, field, handler, disk,
                   progress>>
    /\ UNCHANGED <<session, ret>>

\* handler.load(): the tag on disk; for an MP3 file without a header, ID3()
Loaded(cls, file) ==
    IF cls = "MP3TagHandler" /\ ~file.header THEN EmptyTags(cls) ELSE file.tags

\* a load that lets ID3NoHeaderError out
load_NoCatch(cls, file, fault) ==
    IF fault # NoFault THEN SetRaise([exc |-> "error", msg |-> fault], <<>>)
    ELSE IF cls = "MP3TagHandler" /\ ~file.header
         THEN SetRaise([exc |-> "ID3NoHeaderError", msg |-> "doesn't start with an ID3 tag"],
                       <<>>)
         ELSE Set(file.tags)

\* handler.load() under a fault (the file cannot be read, or is no container of
\* its format): the fault is raised; a missing ID3 header is caught inside load
load(cls, file, fault) ==
    IF fault # NoFault THEN SetRaise([exc |-> "error", msg |-> fault], <<>>)
    ELSE Set(Loaded(cls, file))

\* a batch that may load its file again while a handler is at work on it
LoadOkAgain ==
    /\ pc \in {"loop", "apply"}
    /\ index <= Len(paths)
    /\ HandlerClassFor(paths[index]) # ""
    /\ ~load(HandlerClassFor(paths[index]), disk[paths[index]], NoFault).raised
    /\ handler' = [cls |-> HandlerClassFor(paths[index]),
                   path |-> paths[index],
                   audio |-> load(HandlerClassFor(paths[index]), disk[paths[index]],
                                  NoFault).audio]
    /\ field' = 0
    /\ pc' = "apply"
    /\ log' = Append(log, Event("load", index, "", TRUE, NoMessage))
    /\ UNCHANGED <<mode, raw_inputs, updates, errors, paths, index, disk, results, progress>>
    /\ UNCHANGED <<session, ret>>

\* get_handler_for_path builds the handler, whose __init__ loads the file
LoadOk ==
    /\ pc = "loop"
    /\ index <= Len(paths)
    /\ HandlerClassFor(paths[index]) # ""
    /\ ~load(HandlerClassFor(paths[index]), disk[paths[index]], NoFault).raised
    /\ handler' = [cls |-> HandlerClassFor(paths[index]),
                   path |-> paths[index],
                   audio |-> load(HandlerClassFor(paths[index]), disk[paths[index]],
                                  NoFault).audio]
    /\ field' = 0
    /\ pc' = "apply"
    /\ log' = Append(log, Event("load", index, "", TRUE, NoMessage))
    /\ UNCHANGED <<mode, raw_inputs, updates, errors, paths, index, disk, results, progress>>
    /\ UNCHANGED <<session, ret>>

\* the load raises: the file cannot be read, or is no container of its format
LoadFail ==
    /\ pc = "loop"
    /\ index <= Len(paths)
    /\ HandlerClassFor(paths[index]) # ""
    /\ \E fault \in LoadCauses \cup {NoFault} :
        LET r == load(HandlerClassFor(paths[index]), disk[paths[index]], fault)
        IN  /\ r.raised
            /\ Failed(Message(r.msg, <<>>))
            /\ log' = Append(log, Event("load", index, "", FALSE, Message(r.msg, <<>>)))
    /\ UNCHANGED <<mode, raw_inputs, updates, errors, paths, index, field, handler, disk,
                   progress>>
    /\ UNCHANGED <<session, ret>>

\* an apply that saves what it has set so far when set_field raises
SetFieldSavesPartial ==
    /\ pc = "apply"
    /\ field < Len(updates)
    /\ LET it == updates[field + 1]
           r == set_field(handler.cls, handler.audio, it.name, it.value)
       IN  /\ log' = Append(log, Event("set_field", index, it.name, ~r.raised,
                                       Message(r.msg, <<>>)))
           /\ IF r.raised
              THEN /\ Failed(Message(r.msg, <<>>))
                   /\ handler' = NoHandler
                   /\ field' = field
                   /\ disk' = [disk EXCEPT ![handler.path] = File(TRUE, r.audio)]
              ELSE /\ handler' = [handler EXCEPT !.audio = r.audio]
                   /\ field' = field + 1
                   /\ pc' = pc
                   /\ results' = results
                   /\ disk' = disk
    /\ UNCHANGED <<mode, raw_inputs, updates, errors, paths, index, progress>>
    /\ UNCHANGED <<session, ret>>

\* BaseTagHandler.apply: one turn of "for field, value in updates.items()"
SetField ==
    /\ pc = "apply"
    /\ field < Len(updates)
    /\ LET it == updates[field + 1]
           r == set_field(handler.cls, handler.audio, it.name, it.value)
       IN  /\ log' = Append(log, Event("set_field", index, it.name, ~r.raised,
                                       Message(r.msg, <<>>)))
           /\ IF r.raised
              THEN /\ Failed(Message(r.msg, <<>>))
                   /\ handler' = NoHandler
                   /\ field' = field
              ELSE /\ handler' = [handler EXCEPT !.audio = r.audio]
                   /\ field' = field + 1
                   /\ pc' = pc
                   /\ results' = results
    /\ UNCHANGED <<mode, raw_inputs, updates, errors, paths, index, disk, progress>>
    /\ UNCHANGED <<session, ret>>

\* a handler that counts a failed save as done
SaveFailIgnored ==
    /\ pc = "apply"
    /\ field = Len(updates)
    /\ \E cause \in SaveCauses :
        /\ results' = Append(results, UpdateResult(paths[index], TRUE, NoMessage))
        /\ log' = Append(log, Event("save", index, "", FALSE, Message(cause, <<>>)))
    /\ pc' = "progress"
    /\ handler' = NoHandler
    /\ UNCHANGED <<mode, raw_inputs, updates, errors, paths, index, field, disk, progress>>
    /\ UNCHANGED <<session, ret>>

\* an apply that may save before the loop is over
SaveEarly ==
    /\ pc = "apply"
    /\ field <= Len(updates)
    /\ disk' = [disk EXCEPT ![handler.path] = File(TRUE, handler.audio)]
    /\ results' = Append(results, UpdateResult(paths[index], TRUE, NoMessage))
    /\ handler' = NoHandler
    /\ pc' = "progress"
    /\ log' = Append(log, Event("save", index, "", TRUE, NoMessage))
    /\ UNCHANGED <<mode, raw_inputs, updates, errors, paths, index, field, progress>>
    /\ UNCHANGED <<session, ret>>

\* BaseTagHandler.apply: self.save() after the loop, then the success result
SaveOk ==
    /\ pc = "apply"
    /\ field = Len(updates)
    /\ disk' = [disk EXCEPT ![handler.path] = File(TRUE, handler.audio)]
    /\ results' = Append(results, UpdateResult(paths[index], TRUE, NoMessage))
    /\ handler' = NoHandler
    /\ pc' = "progress"
    /\ log' = Append(log, Event("save", index, "", TRUE, NoMessage))
    /\ UNCHANGED <<mode, raw_inputs, updates, errors, paths, index, field, progress>>
    /\ UNCHANGED <<session, ret>>

\* save raises: the file is not written
SaveFail ==
    /\ pc = "apply"
    /\ field = Len(updates)
    /\ \E cause \in SaveCauses :
        /\ Failed(Message(cause, <<>>))
        /\ log' = Append(log, Event("save", index, "", FALSE, Message(cause, <<>>)))
    /\ handler' = NoHandler
    /\ UNCHANGED <<mode, raw_inputs, updates, errors, paths, index, field, disk, progress>>
    /\ UNCHANGED <<session, ret>>

\* a loop that reports progress for the files that succeeded only
ProgressOnSuccess ==
    /\ pc = "progress"
    /\ progress' = IF progress.made /\ results[index].success
                   THEN [progress EXCEPT !.values = Append(@, <<index, Len(paths)>>)]
                   ELSE progress
    /\ index' = index + 1
    /\ pc' = "loop"
    /\ UNCHANGED <<mode, raw_inputs, updates, errors, paths, field, handler, disk, results,
                   log>>
    /\ UNCHANGED <<session, ret>>

\* if progress: progress.progress(index / total); then the next turn of the loop
Progress ==
    /\ pc = "progress"
    /\ progress' = IF progress.made
                   THEN [progress EXCEPT !.values = Append(@, <<index, Len(paths)>>)]
                   ELSE progress
    /\ index' = index + 1
    /\ pc' = "loop"
    /\ UNCHANGED <<mode, raw_inputs, updates, errors, paths, field, handler, disk, results,
                   log>>
    /\ UNCHANGED <<session, ret>>

\* after the loop: if progress: progress.empty(); return results
BatchEnd ==
    /\ pc = "loop"
    /\ index > Len(paths)
    /\ progress' = IF progress.made THEN [progress EXCEPT !.emptied = TRUE] ELSE progress
    /\ pc' = "done"
    /\ UNCHANGED <<mode, raw_inputs, updates, errors, paths, index, field, handler, disk,
                   results, log>>
    /\ UNCHANGED <<session, ret>>

Next ==
    \/ MainApply
    \/ DirectCall
    \/ BatchBegin
    \/ Unsupported
    \/ LoadOk
    \/ LoadFail
    \/ SetField
    \/ SaveOk
    \/ SaveFail
    \/ Progress
    \/ BatchEnd

Spec == Init /\ [][Next]_vars

\* the folder workflow on its own
FolderNext == TypeFolder \/ ToggleSubfolders \/ SyncFolder \/ LoadFolder

SpecFolder == Init /\ [][FolderNext]_vars


----------------------------------------------------------------------------
(* collect_updates on its own: any caller, any dict of raw values *)

\* the raw values tried for a field; "mood" is a name FIELD_PARSERS does not know
RawValues(name) ==
    CASE name \in TextFields -> {NoneV, StrV(<<" ">>), StrV(<<" ", "a", " ">>)}
      [] name = "artists" ->
            {NoneV, StrV(<<" ", ";", ",">>), StrV(<<"a", ",", " ", "b">>)}
      [] name = "year" -> {StrV(<<"2", "0", "2", "4">>), StrV(<<"2", "4">>)}
      [] name = "track_number" ->
            {StrV(<<"1", "/", "2">>), StrV(<<"2", "/", "1">>), StrV(<<"x">>)}
      [] name = "rating" -> {NoneV, IntV(0), IntV(3)}
      [] name = "mood" -> {NoneV, StrV(<<" ", "a", " ">>), IntV(7)}

CollectNames == {FieldNames[k] : k \in 1..Len(FieldNames)} \cup {"mood"}
CollectItems == UNION {{Item(m, v) : v \in RawValues(m)} : m \in CollectNames}
CollectInputs == {d \in Dicts(CollectItems, MaxFields) : DistinctNames(d)}

\* updates, errors = collect_updates(raw_inputs)
Collect ==
    /\ pc = "idle"
    /\ \E inputs \in CollectInputs :
        /\ raw_inputs' = inputs
        /\ updates' = collect_updates(inputs).updates
        /\ errors' = collect_updates(inputs).errors
    /\ mode' = "collect"
    /\ pc' = "collected"
    /\ UNCHANGED <<paths, index, field, handler, disk, results, progress, log>>
    /\ UNCHANGED <<session, ret>>

SpecCollect == Init /\ [][Collect]_vars

----------------------------------------------------------------------------
(* One handler instance on its own: set_field called with any value *)

\* how far outside 0..5 the ratings tried reach
MaxRatingOver == 2
\* the most set_field calls made on one instance
MaxCalls == 2

HandlerClassSet == {HANDLER_CLASSES[c] : c \in 1..Len(HANDLER_CLASSES)}

\* the (field, value) pairs set_field is called with
EncItems ==
    {Item("rating", IntV(r)) : r \in (0 - MaxRatingOver)..(5 + MaxRatingOver)}
    \cup {Item("rating", StrV(<<"4">>)), Item("rating", StrV(<<"x">>)), Item("rating", NoneV)}
    \cup {Item(m, StrV(v)) : m \in TextFields \cup {"year", "mood"},
                             v \in {<<"x">>, <<"y">>}}
    \cup {Item("artists", ListV(<<(<<"x">>), <<"y">>>>)), Item("artists", ListV(<<(<<"y">>)>>))}
    \cup {Item("track_number", v) :
            v \in {TupleV(1, 2), TupleV(3, 4), TupleV(0, 0), TupleNoneV(1)}}

\* a handler just built on a file: its tag is empty or was written by another tool;
\* disk keeps the file it was loaded from
EncInit ==
    /\ pc = "handler"
    /\ mode = "handler"
    /\ raw_inputs = <<>>
    /\ updates = <<>>
    /\ errors = <<>>
    /\ paths = <<>>
    /\ index = 0
    /\ field = 0
    /\ \E cls \in HandlerClassSet :
        \E tags \in {EmptyTags(cls), OldTags(cls)} :
            /\ handler = [cls |-> cls, path |-> NoPath, audio |-> tags]
            /\ disk = (NoPath :> File(TRUE, tags))
    /\ results = <<>>
    /\ progress = NoProgress
    /\ log = <<>>
    /\ session = InitSession
    /\ ret = NoReturn

\* handler.set_field(name, value); updates keeps the calls made, log how each ended
EncSetField ==
    /\ pc = "handler"
    /\ field < MaxCalls
    /\ \E it \in EncItems :
        LET r == set_field(handler.cls, handler.audio, it.name, it.value)
        IN  /\ handler' = [handler EXCEPT !.audio = r.audio]
            /\ updates' = Append(updates, it)
            /\ log' = Append(log, Event("set_field", 0, it.name, ~r.raised,
                                        Message(r.msg, <<>>)))
    /\ field' = field + 1
    /\ UNCHANGED <<pc, mode, raw_inputs, errors, paths, index, disk, results, progress>>
    /\ UNCHANGED <<session, ret>>

SpecEnc == EncInit /\ [][EncSetField]_vars


----------------------------------------------------------------------------
(* The parsers and the classifier on their own: any text typed into the     *)
(* track, year and artists boxes, any suffix in any case                    *)

\* the longest text typed into the track number, year and artists boxes
MaxTrackLen == 4
MaxYearLen == 8
MaxPeopleLen == 5

TrackChars == {" ", "0", "1", "-", "/", "x", "_"}
YearChars == {"2", "-", " "}
PeopleChars == {"a", "b", ",", ";", " "}

\* every text of at most n characters of cs
Texts(cs, n) == UNION {[1..k -> cs] : k \in 0..n}

ParseNames == {"track_number", "year", "artists"}
ParseTexts(name) ==
    CASE name = "track_number" -> Texts(TrackChars, MaxTrackLen)
      [] name = "year" -> Texts(YearChars, MaxYearLen)
      [] name = "artists" -> Texts(PeopleChars, MaxPeopleLen)

\* collect_updates on a form with one box filled in
Parse ==
    /\ pc = "idle"
    /\ \E name \in ParseNames :
        \E x \in ParseTexts(name) :
            /\ raw_inputs' = <<Item(name, StrV(x))>>
            /\ updates' = collect_updates(<<Item(name, StrV(x))>>).updates
            /\ errors' = collect_updates(<<Item(name, StrV(x))>>).errors
    /\ mode' = "parse"
    /\ pc' = "parsed"
    /\ UNCHANGED <<paths, index, field, handler, disk, results, progress, log>>
    /\ UNCHANGED <<session, ret>>

\* str.upper() of a letter
UpperChar(c) ==
    IF \E k \in 1..26 : LowerLetters[k] = c
    THEN UpperLetters[CHOOSE k \in 1..26 : LowerLetters[k] = c]
    ELSE c

\* a text with any of its letters in upper case
CaseVariants(x) ==
    {[k \in 1..Len(x) |-> IF k \in U THEN UpperChar(x[k]) ELSE x[k]] :
        U \in SUBSET (1..Len(x))}

\* suffixes that are no key of the table: other formats, a key cut short or
\* extended, a key without its dot, no suffix at all
OtherSuffixes ==
    {<<>>, <<".", "t", "x", "t">>, <<".", "o", "g", "g">>, <<".", "w", "a", "v">>,
     <<".", "m", "p">>, <<".", "m", "p", "3", "x">>, <<"m", "p", "3">>,
     <<".", "m", "4">>, <<".", "a", "a", "c">>, <<".", "m", "p", "3", " ">>}

ClassifySuffixes == UNION {CaseVariants(x) : x \in SupportedSuffixes \cup OtherSuffixes}

\* handler_cls = SUFFIX_HANDLER_MAP.get(path.suffix.lower()) for a path of any
\* suffix; handler keeps the path and the class picked ("" for None)
Classify ==
    /\ pc = "idle"
    /\ \E suffix \in ClassifySuffixes :
        handler' = [cls |-> HandlerClassFor(Path("f", suffix)),
                    path |-> Path("f", suffix),
                    audio |-> <<>>]
    /\ mode' = "classify"
    /\ pc' = "classified"
    /\ UNCHANGED <<raw_inputs, updates, errors, paths, index, field, disk, results,
                   progress, log>>
    /\ UNCHANGED <<session, ret>>

SpecPure == Init /\ [][Parse \/ Classify]_vars


----------------------------------------------------------------------------
(* The preview table: build_metadata_table and read_metadata_preview        *)

PreviewKeys == {"file", "title", "artists", "album", "year", "track", "genre", "path"}

\* path.name and str(path) of a file of the folder
PathName(path) == <<path.stem>> \o path.suffix

\* join_values of a list: "; ".join of the stripped, non-empty str() of its items
join_values(values) == Join(StripNonEmpty(values), <<";", " ">>)

\* the container class MutagenFile finds in a file, "" when it knows none
ContainerOf(path) == HandlerClassFor(path)

\* the native key behind a key of the easy interface: the EasyID3 and EasyMP4
\* names, the key itself for Vorbis comments and ASF attributes; "" when the
\* easy interface has no such key
EasyNative(cls, key) ==
    CASE cls = "MP3TagHandler" ->
            (CASE key = "title" -> "TIT2" [] key = "artist" -> "TPE1"
               [] key = "album" -> "TALB" [] key = "date" -> "TDRC"
               [] key = "tracknumber" -> "TRCK" [] key = "genre" -> "TCON"
               [] OTHER -> "")
      [] cls = "MP4TagHandler" ->
            (CASE key = "title" -> "\\xa9nam" [] key = "artist" -> "\\xa9ART"
               [] key = "album" -> "\\xa9alb" [] key = "date" -> "\\xa9day"
               [] key = "tracknumber" -> "trkn" [] key = "genre" -> "\\xa9gen"
               [] OTHER -> "")
      [] OTHER -> key

\* str() of a value held under a key
ValueText(v) ==
    CASE v.t = "tuple" -> TrackText(v)
      [] v.t = "int" -> IntToText(IntOf(v))
      [] OTHER -> StrOf(v)

\* tags.get(key, []): the texts under a key, [] when the key is absent
EasyGet(cls, tags, key) ==
    IF ~Has(tags, EasyNative(cls, key)) THEN <<>>
    ELSE IF cls = "MP3TagHandler" THEN tags[EasyNative(cls, key)][1].v.l
    ELSE [k \in 1..Len(tags[EasyNative(cls, key)]) |->
            ValueText(tags[EasyNative(cls, key)][k])]

\* "if tags": the tags object exists and lists at least one key
EasyTruthy(cls, file) ==
    /\ cls # ""
    /\ file.header
    /\ \E key \in DOMAIN file.tags :
        \/ cls \in {"FLACTagHandler", "ASFTagHandler"}
        \/ \E easy \in {"title", "artist", "album", "date", "tracknumber", "genre"} :
                EasyNative(cls, easy) = key

BlankPreview(path) ==
    [file |-> PathName(path), title |-> <<>>, artists |-> <<>>, album |-> <<>>,
     year |-> <<>>, track |-> <<>>, genre |-> <<>>, path |-> PathName(path)]

\* the first branch: the six fields read through the easy interface
EasyPreview(path, cls, tags) ==
    [BlankPreview(path) EXCEPT
        !.title = join_values(EasyGet(cls, tags, "title")),
        !.artists = join_values(EasyGet(cls, tags, "artist")),
        !.album = join_values(EasyGet(cls, tags, "album")),
        !.year = join_values(IF EasyGet(cls, tags, "date") # <<>>
                             THEN EasyGet(cls, tags, "date")
                             ELSE EasyGet(cls, tags, "year")),
        !.track = join_values(EasyGet(cls, tags, "tracknumber")),
        !.genre = join_values(EasyGet(cls, tags, "genre"))]

\* [tag.value for tag in tags.get(key, [])]
ASFValues(tags, key) ==
    IF ~Has(tags, key) THEN <<>>
    ELSE [k \in 1..Len(tags[key]) |-> ValueText(tags[key][k])]

\* the second branch: the six fields read from the ASF attributes
ASFPreview(path, tags) ==
    [BlankPreview(path) EXCEPT
        !.title = join_values(ASFValues(tags, "Title")),
        !.artists = join_values(ASFValues(tags, "Author")),
        !.album = join_values(ASFValues(tags, "WM/AlbumTitle")),
        !.year = join_values(ASFValues(tags, "WM/Year")),
        !.track = join_values(ASFValues(tags, "WM/TrackNumber")),
        !.genre = join_values(ASFValues(tags, "WM/Genre"))]

IsASFSuffix(path) == Lower(path.suffix) \in {<<".", "w", "m", "a">>, <<".", "a", "s", "f">>}

\* one read of the file: which reader, and the fault it hit if any
Read(op, fault) == [op |-> op, ok |-> fault = NoFault, msg |-> fault]

\* what read_metadata_preview leaves: the record, the reads it made, and the
\* exception that got out of it if any
Previewed(preview, reads) ==
    [raised |-> FALSE, msg |-> "", preview |-> preview, reads |-> reads]

\* a preview whose ASF read is not guarded
read_metadata_preview_NoCatch(path, file, fault, asfFault) ==
    IF fault = NoFault /\ EasyTruthy(ContainerOf(path), file)
    THEN Previewed(EasyPreview(path, ContainerOf(path), file.tags),
                   <<Read("MutagenFile", fault)>>)
    ELSE IF ~IsASFSuffix(path)
    THEN Previewed(BlankPreview(path), <<Read("MutagenFile", fault)>>)
    ELSE IF asfFault # NoFault
    THEN [raised |-> TRUE, msg |-> asfFault, preview |-> BlankPreview(path),
          reads |-> <<Read("MutagenFile", fault), Read("ASF", asfFault)>>]
    ELSE Previewed(ASFPreview(path, file.tags),
                   <<Read("MutagenFile", fault), Read("ASF", asfFault)>>)

\* read_metadata_preview(path) on a file, under a fault of the generic reader
\* and a fault of the ASF reader (NoFault: the read goes well)
read_metadata_preview(path, file, fault, asfFault) ==
    IF fault = NoFault /\ EasyTruthy(ContainerOf(path), file)
    THEN Previewed(EasyPreview(path, ContainerOf(path), file.tags),
                   <<Read("MutagenFile", fault)>>)
    ELSE IF ~IsASFSuffix(path)
    THEN Previewed(BlankPreview(path), <<Read("MutagenFile", fault)>>)
    ELSE IF asfFault # NoFault
    THEN Previewed(BlankPreview(path),
                   <<Read("MutagenFile", fault), Read("ASF", asfFault)>>)
    ELSE Previewed(ASFPreview(path, file.tags),
                   <<Read("MutagenFile", fault), Read("ASF", asfFault)>>)


\* the folders previewed: the one of InitDisk, one whose files were all tagged in
\* full by another tool, one whose files hold no tag
FullDisk ==
    [p \in FilePaths |->
        IF HandlerClassFor(p) = "" THEN File(FALSE, <<>>)
        ELSE File(TRUE, OldTags(HandlerClassFor(p)))]
BlankDisk == [p \in FilePaths |-> File(HandlerClassFor(p) = "FLACTagHandler", <<>>)]
PreviewDisks == {InitDisk, FullDisk, BlankDisk}

PreviewInit ==
    /\ pc = "idle"
    /\ mode = "none"
    /\ raw_inputs = <<>>
    /\ updates = <<>>
    /\ errors = <<>>
    /\ paths = <<>>
    /\ index = 0
    /\ field = 0
    /\ handler = NoHandler
    /\ disk \in PreviewDisks
    /\ results = <<>>
    /\ progress = NoProgress
    /\ log = <<>>
    /\ session = InitSession
    /\ ret = NoReturn

\* build_metadata_table(paths) with a non-empty list: the sample to read
PreviewBegin ==
    /\ pc = "idle"
    /\ \E ps \in PathLists(MaxFiles) :
        /\ ps # <<>>
        /\ paths' = ps
    /\ mode' = "preview"
    /\ index' = 1
    /\ pc' = "preview"
    /\ UNCHANGED <<raw_inputs, updates, errors, field, handler, disk, results, progress, log>>
    /\ UNCHANGED <<session, ret>>

\* the reads of one call as entries of the log
ReadEvents(reads, k) ==
    [i \in 1..Len(reads) |->
        Event(reads[i].op, k, "", reads[i].ok, Message(reads[i].msg, <<>>))]

\* one turn of [read_metadata_preview(path) for path in sample]; an exception
\* that gets out of it ends build_metadata_table
PreviewStep ==
    /\ pc = "preview"
    /\ index <= Len(paths)
    /\ \E fault \in LoadCauses \cup {NoFault}, asfFault \in LoadCauses \cup {NoFault} :
        LET r == read_metadata_preview(paths[index], disk[paths[index]], fault, asfFault)
        IN  /\ log' = log \o ReadEvents(r.reads, index)
            /\ IF r.raised
               THEN /\ pc' = "raised"
                    /\ errors' = <<r.msg>>
                    /\ UNCHANGED <<results, index>>
               ELSE /\ results' = Append(results, r.preview)
                    /\ index' = index + 1
                    /\ UNCHANGED <<pc, errors>>
    /\ UNCHANGED <<mode, raw_inputs, updates, paths, field, handler, disk, progress>>
    /\ UNCHANGED <<session, ret>>

\* df = pd.DataFrame(records); return df[[the eight columns]]
PreviewEnd ==
    /\ pc = "preview"
    /\ index > Len(paths)
    /\ pc' = "previewed"
    /\ UNCHANGED <<mode, raw_inputs, updates, errors, paths, index, field, handler, disk,
                   results, progress, log>>
    /\ UNCHANGED <<session, ret>>

PreviewNext == PreviewBegin \/ PreviewStep \/ PreviewEnd

SpecPreview == PreviewInit /\ [][PreviewNext]_vars


----------------------------------------------------------------------------
(* Properties *)

\* the calls the batch made for its k-th file, in order
EventsOf(k) == SelectSeq(log, LAMBDA e : e.index = k)

InBatch == pc \in {"call", "loop", "apply", "progress"}

\* C1: apply_metadata_to_files returns exactly one UpdateResult per input path, in
\* input order (result k carries path k, repeated paths included); it never stops
\* before the last path (a step is always enabled until it returns), and every
\* path is tried exactly once (one classification or load each), whatever
\* happened to the paths before it.
C1_OneResultPerPath ==
    /\ Len(results) <= Len(paths)
    /\ \A k \in 1..Len(results) : results[k].path = paths[k]
    /\ pc = "done" => Len(results) = Len(paths)
    /\ InBatch => ENABLED Next
    /\ pc \in {"loop", "apply", "progress"} =>
            /\ index \in 1..(Len(paths) + 1)
            /\ Len(results) = (IF pc = "progress" THEN index ELSE index - 1)
    /\ \A k \in 1..Len(results) :
            Len(SelectSeq(EventsOf(k), LAMBDA e : e.op \in {"classify", "load"})) = 1

\* C1 witness: a batch of the same path twice has returned; the first try failed,
\* the second one succeeded.
C1_Witness ==
    /\ pc = "done"
    /\ Len(paths) = 2
    /\ paths[1] = paths[2]
    /\ Len(results) = 2
    /\ ~results[1].success
    /\ results[2].success

\* the calls made for file k are a load, one set_field per field and a save, and
\* none of them raised
CleanRun(k) ==
    LET ev == EventsOf(k)
    IN  /\ Len(ev) = Len(updates) + 2
        /\ ev[1].op = "load"
        /\ ev[Len(ev)].op = "save"
        /\ \A m \in 2..(Len(ev) - 1) : ev[m].op = "set_field" /\ ev[m].name = updates[m - 1].name
        /\ \A m \in 1..Len(ev) : ev[m].ok

\* C2: a file's result has success = TRUE exactly when its classification, its
\* load, every set_field call and its save completed without raising; a
\* successful result has an empty message; a failed result carries str(exc) of the
\* call that raised, which is the last call made for the file.
C2_SuccessIffNothingRaised ==
    \A k \in 1..Len(results) :
        /\ results[k].success <=>
                (CleanRun(k) /\ Lower(paths[k].suffix) \in SupportedSuffixes)
        /\ results[k].success => results[k].message = NoMessage
        /\ ~results[k].success =>
                LET ev == EventsOf(k)
                IN  /\ ev # <<>>
                    /\ ~ev[Len(ev)].ok
                    /\ \A m \in 1..(Len(ev) - 1) : ev[m].ok
                    /\ results[k].message = ev[Len(ev)].msg
                    /\ results[k].message # NoMessage

\* C2 witness: with the same field set, the first file succeeded and the second
\* failed in set_field, with int()'s message in its result.
C2_Witness ==
    /\ Len(results) = 2
    /\ results[1].success
    /\ ~results[2].success
    /\ results[2].message = Message("invalid literal for int() with base 10", <<>>)
    /\ \E e \in {log[m] : m \in 1..Len(log)} : e.index = 2 /\ e.op = "set_field" /\ ~e.ok

\* C3: a path whose lower-cased extension is not a key of the classifier table gets
\* the result success = FALSE with the message "Unsupported file type: " followed by
\* the path's extension as written, no load, set_field or save is made for it, and
\* the file on disk stays as it was.
C3_UnsupportedNeverLoaded ==
    \A k \in 1..Len(paths) :
        Lower(paths[k].suffix) \notin SupportedSuffixes =>
            /\ \A m \in 1..Len(log) :
                    log[m].index = k => log[m].op = "classify" /\ ~log[m].ok
            /\ handler.path # paths[k]
            /\ disk[paths[k]] = InitDisk[paths[k]]
            /\ k <= Len(results) =>
                    results[k] = UpdateResult(paths[k], FALSE,
                                    Message("Unsupported file type: ", paths[k].suffix))

\* C3 witness: the batch [e.txt, <a supported file>] has returned, with the message
\* "Unsupported file type: .txt" for the first file and a success for the second.
C3_Witness ==
    /\ pc = "done"
    /\ Len(results) = 2
    /\ paths[1].suffix = <<".", "t", "x", "t">>
    /\ results[1].message = Message("Unsupported file type: ", <<".", "t", "x", "t">>)
    /\ ~results[1].success
    /\ results[2].success

\* C4: in main's apply flow collect_updates has run over the whole form before any
\* handler exists, and when it returned an error main returns at once:
\* apply_metadata_to_files is not called, no file is loaded, changed or saved.
C4_ErrorsBlockTheBatch ==
    mode = "app" =>
        /\ updates = collect_updates(raw_inputs).updates
        /\ errors = collect_updates(raw_inputs).errors
        /\ Len(raw_inputs) = Len(FieldNames)
        /\ errors # <<>> =>
                /\ pc = "returned"
                /\ paths = <<>>
                /\ log = <<>>
                /\ results = <<>>
                /\ handler = NoHandler
                /\ disk = InitDisk
        /\ (log # <<>> \/ handler # NoHandler \/ disk # InitDisk) => errors = <<>>

\* C4 witness: a form with one valid and one invalid field was submitted: the
\* valid field parsed, and main returned without a batch.
C4_Witness ==
    /\ mode = "app"
    /\ Len(errors) = 1
    /\ updates # <<>>
    /\ pc = "returned"
    /\ log = <<>>

\* C5 as stated: with an empty field set nothing is written to disk for any path
\* of the batch and no tag container changes.
C5_EmptySetWritesNothing ==
    (mode \in {"app", "direct"} /\ updates = <<>>) =>
        /\ \A m \in 1..Len(log) : log[m].op # "save"
        /\ disk = InitDisk

\* C5 amended: in main's apply flow an empty field set never reaches the engine
\* (main returns, nothing is loaded or saved).  apply_metadata_to_files called
\* with an empty field set makes no set_field call and changes no tag, but it
\* still loads and saves every supported file: each file that loads is written
\* back with the tag it was loaded with.
C5_EmptySetAmended ==
    /\ (mode = "app" /\ updates = <<>>) =>
            /\ pc = "returned"
            /\ log = <<>>
            /\ handler = NoHandler
            /\ disk = InitDisk
    /\ (mode = "direct" /\ updates = <<>>) =>
            /\ \A m \in 1..Len(log) : log[m].op # "set_field"
            /\ handler # NoHandler =>
                    handler.audio = Loaded(handler.cls, disk[handler.path])
            /\ \A p \in FilePaths : disk[p].tags = InitDisk[p].tags
            /\ \A k \in 1..Len(results) :
                    results[k].success <=>
                        \E m \in 1..Len(log) :
                            log[m].index = k /\ log[m].op = "save" /\ log[m].ok

\* C5 witness: the engine was called with an empty field set and saved a file;
\* the MP3 file now has a header on disk.
C5_Witness ==
    /\ mode = "direct"
    /\ updates = <<>>
    /\ \E m \in 1..Len(log) : log[m].op = "save" /\ log[m].ok
    /\ disk # InitDisk


\* the items of a dict that a parser rejects
Rejected(inputs) ==
    SelectSeq(inputs, LAMBDA it : FIELD_PARSERS(it.name, it.value).raised)

\* the items of a dict with a given name
Named(d, name) == SelectSeq(d, LAMBDA it : it.name = name)

\* C6: collect_updates validates every field on its own and does not stop at the
\* first failure: errors holds exactly one entry per rejected field, in input
\* order, each the field's label, ": " and the parser's message; and every field
\* is present in updates, with the same value, exactly as it is when it is
\* collected alone.
C6_ErrorsAggregated ==
    pc = "collected" =>
        /\ Len(errors) = Len(Rejected(raw_inputs))
        /\ \A k \in 1..Len(errors) :
                errors[k] =
                    LabelOf(Rejected(raw_inputs)[k].name) \o ": " \o
                    FIELD_PARSERS(Rejected(raw_inputs)[k].name,
                                  Rejected(raw_inputs)[k].value).msg
        /\ \A k \in 1..Len(raw_inputs) :
                Named(updates, raw_inputs[k].name) =
                    collect_updates(<<raw_inputs[k]>>).updates

\* C6 witness: a bad year followed by a bad track number: both are reported, in
\* that order, under their labels.
C6_Witness ==
    /\ pc = "collected"
    /\ Len(raw_inputs) = 2
    /\ raw_inputs[1].name = "year"
    /\ errors = <<"Year: Use YYYY or YYYY-MM-DD format.",
                  "Track number: Total tracks cannot be smaller than the track number.">>
    /\ updates = <<>>

\* every character of a text is one of cs
OnlyChars(x, cs) == \A k \in 1..Len(x) : x[k] \in cs

\* a raw value that is None, empty or whitespace only
BlankRaw(v) == v.t = "none" \/ (v.t = "str" /\ OnlyChars(StrOf(v), {" "}))

CanonicalNames == {FieldNames[k] : k \in 1..Len(FieldNames)}

\* C7: over the ten canonical fields, the field set collect_updates returns
\* holds exactly the fields whose parse succeeded with a non-empty value, in
\* input order: a None, empty or whitespace-only text and an artists text
\* without a non-empty part are left out without an error; a rejected field is
\* left out; rating 0 is kept and rating None is left out; every text kept is
\* trimmed and non-empty, every artists list kept is non-empty.
C7_OnlyParsedNonEmpty ==
    pc = "collected" =>
        /\ \A k \in 1..Len(raw_inputs) :
            LET it == raw_inputs[k]
                kept == Named(updates, it.name)
                parsed == FIELD_PARSERS(it.name, it.value)
            IN  it.name \in CanonicalNames =>
                /\ Len(kept) <= 1
                /\ (it.name # "rating" /\ BlankRaw(it.value)) =>
                        kept = <<>> /\ ~parsed.raised
                /\ (it.name = "artists" /\ it.value.t = "str"
                        /\ OnlyChars(StrOf(it.value), {" ", ";", ","})) =>
                        kept = <<>> /\ ~parsed.raised
                /\ parsed.raised => kept = <<>>
                /\ (it.name = "rating" /\ it.value = IntV(0)) =>
                        kept = <<Item("rating", IntV(0))>>
                /\ (it.name = "rating" /\ it.value = NoneV) => kept = <<>>
                /\ kept # <<>> =>
                        /\ ~parsed.raised
                        /\ kept[1].value = parsed.val
                        /\ kept[1].value.t # "none"
                        /\ kept[1].value.t = "str" =>
                                StrOf(kept[1].value) # <<>>
                                    /\ Strip(StrOf(kept[1].value)) = StrOf(kept[1].value)
                        /\ kept[1].value.t = "list" =>
                                /\ kept[1].value.l # <<>>
                                /\ \A m \in 1..Len(kept[1].value.l) :
                                        kept[1].value.l[m] # <<>>
                /\ (~parsed.raised /\ ~BlankRaw(it.value) /\ it.name \in TextFields) =>
                        kept = <<Item(it.name, StrV(Strip(StrOf(it.value))))>>
        /\ \A k \in 1..Len(updates) :
                \E m \in 1..Len(raw_inputs) : raw_inputs[m].name = updates[k].name
        /\ \A a, b \in 1..Len(updates) :
                a < b =>
                    \E m, q \in 1..Len(raw_inputs) :
                        /\ m < q
                        /\ raw_inputs[m].name = updates[a].name
                        /\ raw_inputs[q].name = updates[b].name
        /\ (\A k \in 1..Len(raw_inputs) : BlankRaw(raw_inputs[k].value)) =>
                updates = <<>> /\ errors = <<>>

\* C7 witness: a whitespace-only title and the rating 0 were collected: the
\* rating is kept, the title is left out, no error is reported.
C7_Witness ==
    /\ pc = "collected"
    /\ raw_inputs = <<Item("title", StrV(<<" ">>)), Item("rating", IntV(0))>>
    /\ updates = <<Item("rating", IntV(0))>>
    /\ errors = <<>>

\* the last set_field call made on the handler, and how it ended
LastCall == updates[Len(updates)]
LastEvent == log[Len(log)]

\* C8: for every rating r in 0..5, set_field("rating", r) returns and leaves
\* exactly the tabulated native value: one POPM frame with Windows Media
\* Player's email, play count 0 and the byte 0, 1, 64, 128, 196, 255; the MP4
\* rate 0, 20, 40, 60, 80, 100; the ASF WM/SharedUserRating 0, 1, 25, 50, 75,
\* 99; the Vorbis comment rating holding the decimal text of r.
C8_RatingTable ==
    (mode = "handler" /\ updates # <<>> /\ LastCall.name = "rating"
        /\ LastCall.value.t = "int" /\ IntOf(LastCall.value) \in 0..5) =>
        LET r == IntOf(LastCall.value)
        IN  /\ LastEvent.ok
            /\ handler.cls = "MP3TagHandler" =>
                    Get(handler.audio, "POPM") =
                        <<Frame(IntV(<<0, 1, 64, 128, 196, 255>>[r + 1]),
                                "Windows Media Player 9 Series", 0)>>
            /\ handler.cls = "MP4TagHandler" =>
                    Get(handler.audio, "rate") = <<IntV(<<0, 20, 40, 60, 80, 100>>[r + 1])>>
            /\ handler.cls = "ASFTagHandler" =>
                    Get(handler.audio, "WM/SharedUserRating") =
                        <<IntV(<<0, 1, 25, 50, 75, 99>>[r + 1])>>
            /\ handler.cls = "FLACTagHandler" =>
                    Get(handler.audio, "rating") =
                        <<StrV(<<(<<"0", "1", "2", "3", "4", "5">>)[r + 1]>>)>>

\* C8 witness: rating 4 was set on an MP3 tag that held two POPM frames: one
\* frame is left, with the byte 196.
C8_Witness ==
    /\ mode = "handler"
    /\ handler.cls = "MP3TagHandler"
    /\ Len(updates) = 1
    /\ LastCall = Item("rating", IntV(4))
    /\ Get(handler.audio, "POPM") = <<Frame(IntV(196), POPM_EMAIL, 0)>>
    /\ Get(handler.audio, "TIT2") # <<>>

\* the native 0-value of the rating is what the handler holds
HoldsZeroRating ==
    /\ handler.cls = "MP3TagHandler" =>
            Get(handler.audio, "POPM") = <<Frame(IntV(0), "Windows Media Player 9 Series", 0)>>
    /\ handler.cls = "MP4TagHandler" => Get(handler.audio, "rate") = <<IntV(0)>>
    /\ handler.cls = "ASFTagHandler" => Get(handler.audio, "WM/SharedUserRating") = <<IntV(0)>>
    /\ handler.cls = "FLACTagHandler" => Get(handler.audio, "rating") = <<StrV(<<"0">>)>>

\* C9: for every int rating outside 0..5, set_field("rating", r) leaves the
\* format's 0-value in each of the four formats: POPM byte 0, MP4 rate 0,
\* WM/SharedUserRating 0, and the text "0" in the Vorbis comment.
C9_OutOfRangeStoresZero ==
    (mode = "handler" /\ updates # <<>> /\ LastCall.name = "rating"
        /\ LastCall.value.t = "int" /\ IntOf(LastCall.value) \notin 0..5) =>
        LastEvent.ok /\ HoldsZeroRating

\* a value int() cannot parse: None, or a text that is no integer literal
Unparsable(v) == PyInt(v).raised

\* C10: set_field("rating", v) never raises, in any handler, for any value v; for
\* a value that cannot be parsed as an integer it leaves the format's 0-value.
C10_RatingNeverRaises ==
    (mode = "handler" /\ updates # <<>> /\ LastCall.name = "rating") =>
        /\ LastEvent.ok
        /\ Unparsable(LastCall.value) => HoldsZeroRating


----------------------------------------------------------------------------
(* The frame of set_field *)

\* the native keys each handler writes for a canonical field
NativeKeys(cls, name) ==
    CASE cls = "MP3TagHandler" ->
            (CASE name = "title" -> {"TIT2"}
               [] name = "subtitle" -> {"TIT3"}
               [] name = "comments" -> {"COMM"}
               [] name = "artists" -> {"TPE1"}
               [] name = "album_artist" -> {"TPE2"}
               [] name = "album" -> {"TALB"}
               [] name = "year" -> {"TDRC"}
               [] name = "track_number" -> {"TRCK"}
               [] name = "genre" -> {"TCON"}
               [] name = "rating" -> {"POPM"}
               [] OTHER -> {})
      [] cls = "FLACTagHandler" ->
            (CASE name = "title" -> {"title"}
               [] name = "subtitle" -> {"subtitle"}
               [] name = "comments" -> {"comment"}
               [] name = "artists" -> {"artist"}
               [] name = "album_artist" -> {"albumartist"}
               [] name = "album" -> {"album"}
               [] name = "year" -> {"date"}
               [] name = "track_number" -> {"tracknumber", "tracktotal"}
               [] name = "genre" -> {"genre"}
               [] name = "rating" -> {"rating"}
               [] OTHER -> {})
      [] cls = "MP4TagHandler" ->
            (CASE name = "title" -> {"\\xa9nam"}
               [] name = "subtitle" -> {"----:com.apple.iTunes:SUBTITLE"}
               [] name = "comments" -> {"\\xa9cmt"}
               [] name = "artists" -> {"\\xa9ART"}
               [] name = "album_artist" -> {"aART"}
               [] name = "album" -> {"\\xa9alb"}
               [] name = "year" -> {"\\xa9day"}
               [] name = "track_number" -> {"trkn"}
               [] name = "genre" -> {"\\xa9gen"}
               [] name = "rating" -> {"rate"}
               [] OTHER -> {})
      [] cls = "ASFTagHandler" ->
            (CASE name = "title" -> {"Title"}
               [] name = "subtitle" -> {"WM/SubTitle"}
               [] name = "comments" -> {"WM/Comments"}
               [] name = "artists" -> {"Author"}
               [] name = "album_artist" -> {"WM/AlbumArtist"}
               [] name = "album" -> {"WM/AlbumTitle"}
               [] name = "year" -> {"WM/Year"}
               [] name = "track_number" -> {"WM/TrackNumber", "WM/TrackTotal"}
               [] name = "genre" -> {"WM/Genre"}
               [] name = "rating" -> {"WM/SharedUserRating"}
               [] OTHER -> {})

\* the container the handler of SpecEnc loaded
LoadedTags == disk[handler.path].tags

\* the names set_field was called with so far
CalledNames == {updates[k].name : k \in 1..Len(updates)}

\* C11: for each of the four handlers, whatever set_field calls apply made (ended
\* well or not), every native key of every canonical field that is not among the
\* fields set holds exactly what it held after load: present with the same values,
\* or absent as before.  Nothing is cleared, and no key outside the ten fields'
\* keys appears.
C11_AbsentFieldUntouched ==
    (mode = "handler") =>
        /\ \A k \in 1..Len(FieldNames) :
            FieldNames[k] \notin CalledNames =>
                \A key \in NativeKeys(handler.cls, FieldNames[k]) :
                    /\ Has(handler.audio, key) = Has(LoadedTags, key)
                    /\ Get(handler.audio, key) = Get(LoadedTags, key)
        /\ DOMAIN handler.audio \subseteq KeysOf(handler.cls)

\* two fields were set on a tag written by another tool, one of them the rating
\* with a value that made set_field raise, and the title is still the old one
C11_Witness ==
    /\ mode = "handler"
    /\ Len(updates) = 2
    /\ handler.cls = "MP3TagHandler"
    /\ LoadedTags = OldTags("MP3TagHandler")
    /\ CalledNames = {"rating", "comments"}
    /\ \E k \in 1..2 : ~log[k].ok
    /\ Get(handler.audio, "TIT2") = <<TextFrame(ListV(<<Old>>))>>
    /\ Get(handler.audio, "COMM") # Get(LoadedTags, "COMM")

\* every set_field call made so far was for one and the same field
SameFieldCalls == \A a, b \in 1..Len(updates) : updates[a].name = updates[b].name

\* C12: for every handler and every field, when set_field was called several times
\* in a row for the same field on one instance and the last call returned, the
\* container is the one a single call with the last value leaves on the loaded
\* tag: only the last value is held, and an ID3 frame of the field occurs once.
C12_LastValueOnly ==
    (mode = "handler" /\ Len(updates) >= 2 /\ SameFieldCalls /\ LastEvent.ok) =>
        /\ handler.audio =
             set_field(handler.cls, LoadedTags, LastCall.name, LastCall.value).audio
        /\ handler.cls = "MP3TagHandler" =>
             \A key \in NativeKeys(handler.cls, LastCall.name) :
                Len(Get(handler.audio, key)) = 1

\* the comments of an MP3 tag that held two COMM frames were set to "x" and then
\* to "y"
C12_Witness ==
    /\ mode = "handler"
    /\ handler.cls = "MP3TagHandler"
    /\ LoadedTags = OldTags("MP3TagHandler")
    /\ updates = <<Item("comments", StrV(<<"x">>)), Item("comments", StrV(<<"y">>))>>
    /\ Get(handler.audio, "COMM") = <<Frame(ListV(<<(<<"y">>)>>), "eng", 0)>>

\* C13: for each file of a batch the calls are, in this order: the load; then one
\* set_field per field of the field set, in the set's order; then one save.  A
\* call that raises is the last one made for its file (the fields after it are
\* not set and nothing is saved), so save never comes before or between set_field
\* calls nor twice, and a file reported as updated had every field set once and
\* was saved once, after the last set_field.
C13_LoadSetSave ==
    (mode \in {"app", "direct"}) =>
        \A k \in 1..Len(paths) :
            LET evs == EventsOf(k)
            IN  /\ Len(evs) <= Len(updates) + 2
                /\ \A i \in 1..Len(evs) :
                    /\ i = 1 => evs[i].op \in {"classify", "load"}
                    /\ (i >= 2 /\ i <= Len(updates) + 1) =>
                            /\ evs[i].op = "set_field"
                            /\ evs[i].name = updates[i - 1].name
                    /\ i = Len(updates) + 2 => evs[i].op = "save"
                    /\ i < Len(evs) => evs[i].ok
                /\ (k <= Len(results) /\ results[k].success) =>
                        /\ Len(evs) = Len(updates) + 2
                        /\ evs[Len(evs)].ok

\* a file was loaded, had two fields set and was saved
C13_Witness ==
    /\ mode = "direct"
    /\ Len(updates) = 2
    /\ Len(results) >= 1
    /\ results[1].success
    /\ LET evs == EventsOf(1)
       IN  /\ Len(evs) = 4
           /\ evs[1].op = "load"
           /\ evs[2].op = "set_field" /\ evs[3].op = "set_field"
           /\ evs[4].op = "save"

----------------------------------------------------------------------------
(* The parsers *)

\* the text typed into the one box of a parsed form, trimmed
Typed == StrOf(raw_inputs[1].value)
TypedTrimmed == Strip(Typed)
ParsedOf(name) == mode = "parse" /\ raw_inputs[1].name = name

\* the text before the first "/" of the trimmed input, and the text after it
TrackPart ==
    IF FirstIn(TypedTrimmed, {"/"}) = 0 THEN TypedTrimmed
    ELSE SubSeq(TypedTrimmed, 1, FirstIn(TypedTrimmed, {"/"}) - 1)
TotalPart ==
    IF FirstIn(TypedTrimmed, {"/"}) = 0 THEN <<>>
    ELSE SubSeq(TypedTrimmed, FirstIn(TypedTrimmed, {"/"}) + 1, Len(TypedTrimmed))

TrackIsInt == ~PyIntOfText(TrackPart).raised
TrackInt == IntOf(PyIntOfText(TrackPart).val)
TotalBlank == Strip(TotalPart) = <<>>
TotalIsInt == ~PyIntOfText(TotalPart).raised
TotalInt == IntOf(PyIntOfText(TotalPart).val)

\* N or N/M with N an integer >= 0 and M blank or an integer >= N
TrackAccepted ==
    /\ TrackIsInt
    /\ TrackInt >= 0
    /\ TotalBlank \/ (TotalIsInt /\ TotalInt >= TrackInt)

\* a rejection message, and what must be wrong with the input for it to fit
TrackMessageFits(msg) ==
    \/ msg = "Track number: Track must be an integer." /\ ~TrackIsInt
    \/ msg = "Track number: Track must be positive." /\ TrackIsInt /\ TrackInt < 0
    \/ msg = "Track number: Total tracks must be an integer."
            /\ ~TotalBlank /\ ~TotalIsInt
    \/ msg = "Track number: Total tracks cannot be smaller than the track number."
            /\ TrackIsInt /\ ~TotalBlank /\ TotalIsInt /\ TotalInt < TrackInt

\* C14: a blank track number box gives no field and no error.  Any other text is
\* accepted exactly when it reads N or N/M with N an integer >= 0 and M blank or
\* an integer >= N; the field set then holds (N, M), or (N, none) when M is blank,
\* so track >= 0 and total is absent or >= track.  A rejected text gives no field
\* and one error, whose message names something that is wrong with the text.
C14_TrackNumber ==
    ParsedOf("track_number") =>
        IF TypedTrimmed = <<>> THEN updates = <<>> /\ errors = <<>>
        ELSE IF TrackAccepted
        THEN /\ errors = <<>>
             /\ updates =
                  <<Item("track_number",
                         IF TotalBlank THEN TupleNoneV(TrackInt)
                         ELSE TupleV(TrackInt, TotalInt))>>
             /\ IntOf(updates[1].value) >= 0
             /\ SecondIsNone(updates[1].value)
                    \/ SecondOf(updates[1].value) >= IntOf(updates[1].value)
        ELSE /\ updates = <<>>
             /\ Len(errors) = 1
             /\ TrackMessageFits(errors[1])

\* "1/0" was typed and rejected because the total is smaller than the track
C14_Witness ==
    /\ ParsedOf("track_number")
    /\ Typed = <<"1", "/", "0">>
    /\ updates = <<>>
    /\ errors = <<"Track number: Total tracks cannot be smaller than the track number.">>

\* the hyphen-separated groups of the trimmed input
YearGroups == SplitAll(TypedTrimmed, {"-"})
DigitGroup(g, least, most) ==
    /\ Len(g) >= least
    /\ Len(g) <= most
    /\ \A k \in 1..Len(g) : IsDigit(g[k])

\* YYYY, YYYY-MM or YYYY-MM-DD: four digits, then at most two groups of one or two
\* digits
YearShape ==
    /\ Len(YearGroups) \in 1..3
    /\ DigitGroup(YearGroups[1], 4, 4)
    /\ \A k \in 2..Len(YearGroups) : DigitGroup(YearGroups[k], 1, 2)

\* C15: a blank year box gives no field and no error.  Any other text is accepted
\* exactly when, trimmed, it has the shape YYYY, YYYY-MM or YYYY-MM-DD, and the
\* field set then holds the trimmed text unchanged; every other text gives no
\* year field and the one error "Year: Use YYYY or YYYY-MM-DD format."
C15_Year ==
    ParsedOf("year") =>
        IF TypedTrimmed = <<>> THEN updates = <<>> /\ errors = <<>>
        ELSE IF YearShape
        THEN errors = <<>> /\ updates = <<Item("year", StrV(TypedTrimmed))>>
        ELSE updates = <<>> /\ errors = <<"Year: Use YYYY or YYYY-MM-DD format.">>

\* " 2222-2" was typed and the year 2222-2 kept
C15_Witness ==
    /\ ParsedOf("year")
    /\ Typed = <<" ", "2", "2", "2", "2", "-", "2">>
    /\ updates = <<Item("year", StrV(<<"2", "2", "2", "2", "-", "2">>))>>
    /\ errors = <<>>

\* the names of the artists field of the field set, none when it is omitted
Names == IF updates = <<>> THEN <<>> ELSE updates[1].value.l
Separators == {",", ";"}
Unspaced(x) == SelectSeq(x, LAMBDA c : c # " ")

\* the places of the typed text where a name starts: a character that is neither
\* a blank nor a separator, with only blanks between it and the separator (or the
\* start of the text) before it
NameStarts ==
    {i \in 1..Len(Typed) :
        /\ Typed[i] \notin Separators \cup {" "}
        /\ \A j \in 1..(i - 1) :
            (\A m \in j..(i - 1) : Typed[m] \notin Separators) => Typed[j] = " "}

\* C16: parse_people never rejects.  Its names are the parts of the text between
\* commas and semicolons, in their order: each name is non-empty, trimmed, free
\* of separators and stands as it is in the text; there is one name per part that
\* holds more than blanks, and together the names hold the characters of the text
\* in their order, blanks and separators apart.  When no part holds a name the
\* artists field is omitted: the field set never holds an empty list.
C16_People ==
    ParsedOf("artists") =>
        /\ errors = <<>>
        /\ updates # <<>> =>
             /\ updates[1].name = "artists"
             /\ updates[1].value.t = "list"
             /\ Names # <<>>
        /\ \A k \in 1..Len(Names) :
             /\ Names[k] # <<>>
             /\ Strip(Names[k]) = Names[k]
             /\ \A m \in 1..Len(Names[k]) : Names[k][m] \notin Separators
             /\ \E a \in 1..Len(Typed) :
                    SubSeq(Typed, a, a + Len(Names[k]) - 1) = Names[k]
        /\ Len(Names) = Cardinality(NameStarts)
        /\ Unspaced(Join(Names, <<>>)) =
             SelectSeq(Typed, LAMBDA c : c \notin Separators \cup {" "})

\* "b;a, b" was typed and the names b, a, b kept in this order
C16_Witness ==
    /\ ParsedOf("artists")
    /\ Typed = <<"b", ";", "a", ",", "b">>
    /\ updates = <<Item("artists", ListV(<<(<<"b">>), <<"a">>, <<"b">>>>))>>

----------------------------------------------------------------------------
(* The classifier *)

\* the table of extensions and encoder variants
ExtensionTable ==
    {<<(<<".", "m", "p", "3">>), "MP3TagHandler">>,
     <<(<<".", "f", "l", "a", "c">>), "FLACTagHandler">>,
     <<(<<".", "m", "4", "a">>), "MP4TagHandler">>,
     <<(<<".", "m", "4", "b">>), "MP4TagHandler">>,
     <<(<<".", "m", "4", "p">>), "MP4TagHandler">>,
     <<(<<".", "m", "4", "r">>), "MP4TagHandler">>,
     <<(<<".", "m", "p", "4">>), "MP4TagHandler">>,
     <<(<<".", "m", "4", "v">>), "MP4TagHandler">>,
     <<(<<".", "w", "m", "a">>), "ASFTagHandler">>,
     <<(<<".", "a", "s", "f">>), "ASFTagHandler">>}

\* two characters that differ in case at most
SameLetter(c, d) ==
    \/ c = d
    \/ \E k \in 1..26 : {c, d} = {UpperLetters[k], LowerLetters[k]}
SameIgnoringCase(x, y) ==
    /\ Len(x) = Len(y)
    /\ \A k \in 1..Len(x) : SameLetter(x[k], y[k])

\* the extensions SUPPORTED_EXTENSIONS lists, in its order
ListedExtensions ==
    LET parts == SplitAll(SUPPORTED_EXTENSIONS, {","})
    IN  [k \in 1..Len(parts) |-> Strip(parts[k])]

\* C17: the class picked for a suffix is the one the table gives for the suffix
\* with case ignored (.mp3 ID3; .flac Vorbis; .m4a .m4b .m4p .m4r .mp4 .m4v MP4;
\* .wma .asf ASF), and none for every other suffix.  No suffix belongs to two
\* handler classes, and SUPPORTED_EXTENSIONS lists the ten keys of the table,
\* each once.
C17_ExtensionTable ==
    /\ mode = "classify" =>
        /\ \A row \in ExtensionTable :
             SameIgnoringCase(row[1], handler.path.suffix) => handler.cls = row[2]
        /\ (\A row \in ExtensionTable : ~SameIgnoringCase(row[1], handler.path.suffix))
             => handler.cls = ""
    /\ \A row \in ExtensionTable :
        {cls \in HandlerClassSet : HasSuffix(cls, row[1])} = {row[2]}
    /\ SupportedSuffixes = {row[1] : row \in ExtensionTable}
    /\ Len(ListedExtensions) = 10
    /\ {ListedExtensions[k] : k \in 1..Len(ListedExtensions)} =
         {row[1] : row \in ExtensionTable}

\* the suffix ".M4a" was classified as MP4
C17_Witness ==
    /\ mode = "classify"
    /\ handler.path.suffix = <<".", "M", "4", "a">>
    /\ handler.cls = "MP4TagHandler"

----------------------------------------------------------------------------
(* Loading *)

\* the container a handler holds after every field of a field set was set
RECURSIVE SetAll(_, _, _)
SetAll(cls, audio, items) ==
    IF items = <<>> THEN audio
    ELSE SetAll(cls, set_field(cls, audio, Head(items).name, Head(items).value).audio,
                Tail(items))

IsMP3(path) == HandlerClassFor(path) = "MP3TagHandler"

\* C18: an MP3 file without an ID3 header loads: its handler starts from an empty
\* tag, no load fails for want of a header (a load fails only on a fault of the
\* file or of its container), and once the file's result is a success the file
\* holds a header and exactly the fields of the field set.  A load that fails is
\* the only call made for its file and gives that file a failed result with the
\* fault's message; every file's result stays decided by its own calls alone.
C18_HeaderlessMP3Loads ==
    (mode \in {"app", "direct"}) =>
        /\ \A e \in 1..Len(log) :
             (log[e].op = "load" /\ ~log[e].ok) => log[e].msg.text \in LoadCauses
        /\ (pc = "apply" /\ field = 0 /\ IsMP3(handler.path)
                /\ ~disk[handler.path].header) =>
             handler.audio = EmptyTags("MP3TagHandler")
        /\ \A k \in 1..Len(results) :
             LET evs == EventsOf(k)
             IN  /\ (IsMP3(paths[k]) /\ results[k].success) =>
                        /\ disk[paths[k]].header
                        /\ disk[paths[k]].tags =
                             SetAll("MP3TagHandler", EmptyTags("MP3TagHandler"), updates)
                 /\ (evs[1].op = "load" /\ ~evs[1].ok) =>
                        /\ Len(evs) = 1
                        /\ results[k] = UpdateResult(paths[k], FALSE, evs[1].msg)
                 /\ results[k].success <=>
                        (evs[Len(evs)].op = "save" /\ evs[Len(evs)].ok)

\* the MP3 file, which had no header, was loaded, given a title and saved, while
\* the load of the file after it failed
C18_Witness ==
    /\ mode = "direct"
    /\ Len(results) = 2
    /\ IsMP3(paths[1])
    /\ ~InitDisk[paths[1]].header
    /\ results[1].success
    /\ disk[paths[1]].header
    /\ Has(disk[paths[1]].tags, "TIT2")
    /\ paths[2] # paths[1]
    /\ EventsOf(2)[1].op = "load"
    /\ ~results[2].success

----------------------------------------------------------------------------
(* One file at a time *)

\* the calls made for file k are over: the last of them is the save or raised
Finished(k) ==
    LET evs == EventsOf(k)
    IN  evs # <<>> /\ (evs[Len(evs)].op = "save" \/ ~evs[Len(evs)].ok)

\* C19: a batch works on one file at a time.  A handler is in use from its load
\* to its save or to the call that raises, and only then: it is the handler of
\* the file the loop is at, built by that file's one load.  The calls of the log
\* go file by file in list order, so when a file is loaded the calls of every
\* file before it are over, the earlier entries of the same path included.
C19_OneFileAtATime ==
    (mode \in {"app", "direct"}) =>
        /\ \A a, b \in 1..Len(log) : a < b => log[a].index <= log[b].index
        /\ \A k \in 1..Len(paths) :
             Cardinality({e \in 1..Len(log) :
                            log[e].index = k /\ log[e].op \in {"load", "classify"}}) <= 1
        /\ \A e \in 1..Len(log) :
             log[e].op = "load" =>
                \A j \in 1..(log[e].index - 1) :
                    /\ Finished(j)
                    /\ \A d \in 1..Len(log) : log[d].index = j => d < e
        /\ handler # NoHandler =>
             /\ pc = "apply"
             /\ handler.path = paths[index]
             /\ handler.cls = HandlerClassFor(paths[index])
             /\ EventsOf(index) # <<>>
             /\ EventsOf(index)[1].op = "load"
             /\ ~Finished(index)
        /\ pc = "apply" => handler # NoHandler

\* the same path is listed twice, its first entry was loaded, changed and saved,
\* and its second entry is loaded after that and still at work
C19_Witness ==
    /\ mode = "direct"
    /\ Len(paths) = 2
    /\ paths[1] = paths[2]
    /\ index = 2
    /\ pc = "apply"
    /\ field = 1
    /\ handler.path = paths[2]
    /\ Finished(1)
    /\ results[1].success

----------------------------------------------------------------------------
(* The preview *)

\* the k-th file of the sample could not be read: the generic reader failed, and
\* so did the ASF reader when the file has an ASF suffix
Unreadable(k) ==
    LET evs == EventsOf(k)
    IN  /\ evs # <<>>
        /\ \A e \in 1..Len(evs) : ~evs[e].ok
        /\ IsASFSuffix(paths[k]) => Len(evs) = 2

SixFields == {"title", "artists", "album", "year", "track", "genre"}

\* C20: no read error gets out of read_metadata_preview.  Whatever the generic
\* reader and the ASF reader hit, every file of the sample gets its record, with
\* the eight keys file, title, artists, album, year, track, genre and path; file
\* and path are those of the file, and the six fields of a file that could not be
\* read are empty strings.  No file is written: the folder is as it was, and the
\* only calls made are reads.
C20_PreviewNeverFails ==
    (mode = "preview") =>
        /\ pc # "raised"
        /\ errors = <<>>
        /\ pc = "previewed" => Len(results) = Len(paths)
        /\ \A k \in 1..Len(results) :
             /\ DOMAIN results[k] = PreviewKeys
             /\ results[k].file = PathName(paths[k])
             /\ results[k].path = PathName(paths[k])
             /\ Unreadable(k) => \A f \in SixFields : results[k][f] = <<>>
        /\ disk \in PreviewDisks
        /\ \A e \in 1..Len(log) : log[e].op \in {"MutagenFile", "ASF"}

\* the FLAC file was read and shows its title; the WMA file after it could not be
\* read by either reader and shows blank fields
C20_Witness ==
    /\ mode = "preview"
    /\ pc = "previewed"
    /\ Len(results) = 2
    /\ ContainerOf(paths[1]) = "FLACTagHandler"
    /\ results[1].title = Old
    /\ IsASFSuffix(paths[2])
    /\ Unreadable(2)
    /\ results[2].title = <<>>

----------------------------------------------------------------------------
(* A failure in the middle of apply *)

\* a set_field call made for file k raised
SetFieldRaised(k) ==
    \E e \in 1..Len(log) :
        log[e].index = k /\ log[e].op = "set_field" /\ ~log[e].ok

\* C21: when a set_field call raises for a file, no save is called for that file,
\* its result is a failure with the message of the exception, and the file on disk
\* is as it was before the batch: no field set before the failure is persisted
\* (every other entry of the same path in the batch fails at the same field).
C21_NoSaveAfterRaise ==
    (mode \in {"app", "direct"}) =>
        \A k \in 1..Len(paths) :
            SetFieldRaised(k) =>
                /\ \A e \in 1..Len(log) : log[e].index = k => log[e].op # "save"
                /\ ~EventsOf(k)[Len(EventsOf(k))].ok
                /\ k <= Len(results) =>
                        /\ ~results[k].success
                        /\ results[k].message = EventsOf(k)[Len(EventsOf(k))].msg
                /\ disk[paths[k]] = InitDisk[paths[k]]
                /\ handler.path # paths[k] \/ index # k

\* the title of the MP4 file was set, then its rating "x" raised: the file has a
\* failed result and still holds its old title
C21_Witness ==
    /\ mode = "direct"
    /\ Len(results) >= 1
    /\ HandlerClassFor(paths[1]) = "MP4TagHandler"
    /\ Len(EventsOf(1)) = 3
    /\ EventsOf(1)[2].op = "set_field" /\ EventsOf(1)[2].ok
    /\ EventsOf(1)[3].op = "set_field" /\ ~EventsOf(1)[3].ok
    /\ ~results[1].success
    /\ Get(disk[paths[1]].tags, "\\xa9nam") = <<StrV(Old)>>

----------------------------------------------------------------------------
(* Progress *)

\* the batch has entered its loop
Looping == mode \in {"app", "direct"} /\ pc \in {"loop", "apply", "progress", "done"}

\* the number of files whose turn of the loop is complete
Completed == IF pc = "done" THEN Len(results) ELSE index - 1

\* C22: the batch signals progress once per file, failed or not, after the file's
\* result is recorded and before the next file starts; signal N carries N of
\* total, so the values strictly increase and the last is total of total; an
\* empty path list makes no indicator and no signal.
C22_OneSignalPerFile ==
    Looping =>
        /\ progress.made <=> Len(paths) > 0
        /\ Len(progress.values) = Completed
        /\ \A n \in 1..Len(progress.values) :
                /\ progress.values[n] = <<n, Len(paths)>>
                /\ n <= Len(results)
        /\ pc = "progress" => Len(results) = index
        /\ pc \in {"loop", "apply"} => Len(results) = index - 1
        /\ pc = "done" =>
                /\ Len(progress.values) = Len(paths)
                /\ progress.emptied <=> Len(paths) > 0
        /\ paths = <<>> => progress = NoProgress

\* a batch of two files ended, the first failed and the second succeeded, and
\* both were signalled
C22_Witness ==
    /\ Looping
    /\ pc = "done"
    /\ Len(paths) = 2
    /\ ~results[1].success
    /\ results[2].success
    /\ progress.values = <<(<<1, 2>>), (<<2, 2>>)>>

----------------------------------------------------------------------------
(* The ASF fallback of the preview *)

\* the generic reader gave no value for the k-th file of the sample: it failed,
\* it found no tags, or none of the six keys it asked for is in the tags
GenericYieldsNothing(k) ==
    \/ ~EventsOf(k)[1].ok
    \/ ~EasyTruthy(ContainerOf(paths[k]), disk[paths[k]])
    \/ EasyPreview(paths[k], ContainerOf(paths[k]), disk[paths[k]].tags)
            = BlankPreview(paths[k])

\* the ASF reader was tried on the k-th file of the sample
ASFTried(k) == \E e \in 1..Len(log) : log[e].index = k /\ log[e].op = "ASF"

\* C23: for a .wma or .asf file, whenever the generic reader yields no preview
\* value, read_metadata_preview tries the ASF reader and fills the preview from the
\* ASF attribute names; for every other extension the ASF reader is never tried.
C23_ASFFallback ==
    (mode = "preview") =>
        \A k \in 1..Len(results) :
            /\ ~IsASFSuffix(paths[k]) => ~ASFTried(k)
            /\ (IsASFSuffix(paths[k]) /\ GenericYieldsNothing(k)) =>
                    /\ ASFTried(k)
                    /\ EventsOf(k)[2].ok =>
                            results[k] = ASFPreview(paths[k], disk[paths[k]].tags)

----------------------------------------------------------------------------
(* The total of a track number *)

\* the text of an int held under a key
IntText(n) == <<StrV(IntToText(n))>>

\* C24: set_field("track_number", (track, total)) writes the total whenever a
\* total is given and drops it whenever none is given: TRCK holds "track/total" or
\* "track"; tracktotal and WM/TrackTotal hold the text of the total or are
\* removed; the trkn pair is (track, total) or (track, 0).
C24_TotalWrittenWhenGiven ==
    (mode = "handler" /\ updates # <<>> /\ LastCall.name = "track_number") =>
        LET v == LastCall.value
            given == ~SecondIsNone(v)
            track == IntToText(IntOf(v))
        IN  /\ LastEvent.ok
            /\ handler.cls = "MP3TagHandler" =>
                    Get(handler.audio, "TRCK") =
                        <<TextFrame(ListV(<<IF given
                                            THEN track \o <<"/">> \o IntToText(SecondOf(v))
                                            ELSE track>>))>>
            /\ handler.cls = "FLACTagHandler" =>
                    /\ Get(handler.audio, "tracknumber") = IntText(IntOf(v))
                    /\ Has(handler.audio, "tracktotal") <=> given
                    /\ given => Get(handler.audio, "tracktotal") = IntText(SecondOf(v))
            /\ handler.cls = "ASFTagHandler" =>
                    /\ Get(handler.audio, "WM/TrackNumber") = IntText(IntOf(v))
                    /\ Has(handler.audio, "WM/TrackTotal") <=> given
                    /\ given => Get(handler.audio, "WM/TrackTotal") = IntText(SecondOf(v))
            /\ handler.cls = "MP4TagHandler" =>
                    Get(handler.audio, "trkn") =
                        <<TupleV(IntOf(v), IF given THEN SecondOf(v) ELSE 0)>>

----------------------------------------------------------------------------
(* The order of the track number checks *)

\* the message of the first rule a rejected track number text breaks, in the order
\* track not an integer, total not an integer, track negative, total below track
FirstBrokenRule ==
    IF ~TrackIsInt THEN "Track number: Track must be an integer."
    ELSE IF ~TotalBlank /\ ~TotalIsInt THEN "Track number: Total tracks must be an integer."
    ELSE IF TrackInt < 0 THEN "Track number: Track must be positive."
    ELSE "Track number: Total tracks cannot be smaller than the track number."

\* the number of rules the text breaks
BrokenRules ==
    Cardinality({r \in 1..4 :
        \/ r = 1 /\ ~TrackIsInt
        \/ r = 2 /\ ~TotalBlank /\ ~TotalIsInt
        \/ r = 3 /\ TrackIsInt /\ TrackInt < 0
        \/ r = 4 /\ TrackIsInt /\ ~TotalBlank /\ TotalIsInt /\ TotalInt < TrackInt})

\* C25: a rejected track number text gives exactly one error message, that of the
\* first rule it breaks in the order: track is not an integer, total is not an
\* integer, track is negative, total is smaller than track.
C25_FirstBrokenRule ==
    (ParsedOf("track_number") /\ TypedTrimmed # <<>> /\ ~TrackAccepted) =>
        /\ updates = <<>>
        /\ errors = <<FirstBrokenRule>>

\* "-1/x" was typed: the track is negative and the total is no integer, and the
\* one message is about the total
C25_Witness ==
    /\ ParsedOf("track_number")
    /\ Typed = <<"-", "1", "/", "x">>
    /\ BrokenRules = 2
    /\ errors = <<"Track number: Total tracks must be an integer.">>

----------------------------------------------------------------------------
(* A batch over a folder listing *)

\* where the name of a file comes in the alphabet
StemRank(path) == CHOOSE k \in 1..Len(LowerLetters) : LowerLetters[k] = path.stem

\* C26: every path list_audio_files returns resolves to an encoder class in
\* get_handler_for_path, so a batch over a folder listing never gives an
\* "Unsupported file type" result; the listing is sorted and holds no path whose
\* extension, lower-cased, is outside the table.
C26_ListingResolves ==
    (mode = "app") =>
        /\ \A k \in 1..Len(paths) :
                /\ HandlerClassFor(paths[k]) # ""
                /\ Lower(paths[k].suffix) \in SupportedSuffixes
        /\ \A j, k \in 1..Len(paths) : j < k => StemRank(paths[j]) < StemRank(paths[k])
        /\ \A k \in 1..Len(results) : results[k].message.text # "Unsupported file type: "
        /\ \A e \in 1..Len(log) : log[e].op # "classify"

\* a batch over the listing <<b.flac, c.M4A>> has ended: the file with the
\* upper-case extension was listed, classified and loaded
C26_Witness ==
    /\ mode = "app"
    /\ pc = "done"
    /\ Len(paths) = 2
    /\ paths[2].suffix = <<".", "M", "4", "A">>
    /\ Len(results) = 2
    /\ \E e \in 1..Len(log) : log[e].index = 2 /\ log[e].op = "load" /\ log[e].ok

----------------------------------------------------------------------------
(* A field name outside the ten canonical fields *)

\* the items of a field set whose name is canonical
Known(items) == SelectSeq(items, LAMBDA it : it.name \in CanonicalNames)

\* raw values a caller may hold under a name of its own
UnknownRaw == RawValues("mood") \cup {ListV(<<>>), ListV(<<(<<"a">>)>>)}

\* collect_updates on the one item ("mood", v)
CollectedAlone(v) == collect_updates(<<Item("mood", v)>>)

\* in each of the four handlers set_field("mood", v) returns and leaves the
\* container as it was, empty or full
UnknownIsNoOp ==
    \A cls \in HandlerClassSet, v \in UnknownRaw \ {NoneV} :
        \A tags \in {EmptyTags(cls), OldTags(cls)} :
            set_field(cls, tags, "mood", v) = Set(tags)

\* in a batch no set_field call with an unknown name fails, the container a
\* handler holds is the one the canonical fields alone produce, and a file whose
\* field set holds unknown names only is saved as it was loaded, its result a
\* success unless the save itself fails
UnknownInBatch ==
    (mode \in {"app", "direct"}) =>
        /\ \A e \in 1..Len(log) :
                (log[e].op = "set_field" /\ log[e].name \notin CanonicalNames) => log[e].ok
        /\ pc = "apply" =>
                handler.audio =
                    SetAll(handler.cls, Loaded(handler.cls, disk[handler.path]),
                           Known(SubSeq(updates, 1, field)))
        /\ (updates # <<>> /\ Known(updates) = <<>>) =>
                \A k \in 1..Len(results) :
                    EventsOf(k)[1].ok =>
                        LET last == EventsOf(k)[Len(EventsOf(k))]
                        IN  /\ Len(EventsOf(k)) = Len(updates) + 2
                            /\ last.op = "save"
                            /\ results[k].success <=> last.ok
                            /\ results[k].success =>
                                    disk[paths[k]] =
                                        File(TRUE, Loaded(HandlerClassFor(paths[k]),
                                                          InitDisk[paths[k]]))

\* C27 (as stated): collect_updates does not validate a field with an unknown name
\* and passes its raw value on unchanged whenever the value is not None; set_field
\* with such a name changes nothing and raises nothing in every handler, and the
\* file is still saved and reported as a success.
C27_UnknownPassesUnlessNone ==
    /\ \A v \in UnknownRaw :
            CollectedAlone(v) =
                [updates |-> IF v = NoneV THEN <<>> ELSE <<Item("mood", v)>>,
                 errors |-> <<>>]
    /\ UnknownIsNoOp
    /\ UnknownInBatch

\* C27 (amended): collect_updates does not validate a field with an unknown name
\* and passes its raw value on unchanged unless the value is None or an empty
\* list, which it leaves out like an empty artists list; set_field with such a
\* name changes nothing and raises nothing in every handler, and the file is still
\* saved and reported as a success.
C27_UnknownFieldIgnored ==
    /\ \A v \in UnknownRaw :
            CollectedAlone(v) =
                [updates |-> IF v = NoneV \/ v = ListV(<<>>) THEN <<>>
                             ELSE <<Item("mood", v)>>,
                 errors |-> <<>>]
    /\ UnknownIsNoOp
    /\ UnknownInBatch

\* a batch whose field set holds the unknown field "mood" alone has ended: the
\* FLAC file got its set_field call, was saved and is a success, and holds what
\* it held
C27_Witness ==
    /\ mode = "direct"
    /\ pc = "done"
    /\ updates = <<Item("mood", StrV(<<"a">>))>>
    /\ Len(results) >= 1
    /\ HandlerClassFor(paths[1]) = "FLACTagHandler"
    /\ Len(EventsOf(1)) = 3
    /\ EventsOf(1)[2].op = "set_field" /\ EventsOf(1)[2].name = "mood" /\ EventsOf(1)[2].ok
    /\ EventsOf(1)[3].op = "save" /\ EventsOf(1)[3].ok
    /\ results[1].success
    /\ disk[paths[1]] = InitDisk[paths[1]]

----------------------------------------------------------------------------
(* The folder cache *)

\* the cache holds no folder
CacheEmpty(cache) ==
    cache.selected = <<>> /\ cache.resolved = <<>> /\ cache.files = <<>>

\* the cache holds the listing of its own folder under its own flag
CacheHolds(cache) ==
    /\ cache.selected # <<>>
    /\ IsDir(cache.selected)
    /\ cache.files = list_audio_files(Entries(cache.selected, cache.include_subfolders))
    /\ cache.resolved \in {cache.selected, Resolve(cache.selected)}

\* the cache is empty or holds the listing of the selected folder
CacheSound ==
    /\ CacheEmpty(session.folder_cache) \/ CacheHolds(session.folder_cache)
    /\ session.folder_cache.selected \in {<<>>, session.folder_path}

\* the step is a call of the named function: the user's input is as it was
IsCall(op) ==
    /\ ret'.op = op
    /\ session'.folder_input = session.folder_input
    /\ session'.include_subfolders = session.include_subfolders

\* a load returns the cached list, without listing, exactly when the selected
\* folder and the flag are the cached ones; a load of no folder or a failed load
\* empties the cache and returns ([], ""); any other load lists the folder and
\* caches what it returns
LoadStep ==
    IsCall("load_folder_contents") =>
        LET cache == session.folder_cache
            selected == session.folder_path
            flag == ret'.include_subfolders
            hit == cache.selected = selected /\ cache.include_subfolders = flag
        IN  /\ hit => /\ ~ret'.listed
                      /\ ret'.error = ""
                      /\ ret'.files = cache.files
                      /\ ret'.resolved = cache.resolved
                      /\ session' = session
            /\ (~hit /\ IsDir(selected)) => ret'.listed
            /\ ret'.listed => ~hit
            /\ (selected # <<>> /\ ~IsDir(selected)) => ret'.error # ""
            /\ (selected = <<>> \/ ret'.error # "") =>
                    /\ ret'.files = <<>>
                    /\ ret'.resolved = <<>>
                    /\ session'.folder_cache = reset_folder_cache(flag)
            /\ (ret'.listed /\ ret'.error = "") =>
                    /\ ret'.files = list_audio_files(Entries(selected, flag))
                    /\ session'.folder_cache =
                            [selected |-> selected, resolved |-> ret'.resolved,
                             include_subfolders |-> flag, files |-> ret'.files]

\* a sync that finds the folder input changed takes it over and empties the
\* cache; any other sync leaves the session state alone; the folder it returns is
\* the selected one
SyncStep ==
    IsCall("sync_folder_selection") =>
        /\ session'.folder_path = normalize_folder_input(session.folder_input)
        /\ IF session'.folder_path # session.folder_path
           THEN CacheEmpty(session'.folder_cache)
           ELSE session' = session
        /\ ret'.selected = session'.folder_path
        /\ ret'.folder = IF ret'.selected = <<>> THEN NoneV ELSE StrV(ret'.selected)

====
